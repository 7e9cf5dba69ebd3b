---------------------------- MODULE StudioProofs ----------------------------
(***************************************************************************)
(* Theorems about Studio, for every set of cameras and every number of     *)
(* joins and events: the type invariant and the five properties of the     *)
(* page, from an inductive invariant that looks through the channel to     *)
(* what the bridge is going to do.                                         *)
(***************************************************************************)
EXTENDS Studio, SequenceTheorems, TLAPS

\* The type invariant, in the groups that one lemma each is about.
PageTypes ==
    /\ status \in Status
    /\ job \in [kind: {"none", "start", "stop"},
                step: {"none", "mixing", "sending", "snapshot", "closing"},
                scene: Scene]

RoomTypes ==
    /\ join \in [1..MaxJoins -> {"none", "source", "bridge", "monitor"}]
    /\ connecting \in BOOLEAN
    /\ pub \in 0..MaxJoins /\ mon \in 0..MaxJoins
    /\ open \subseteq Room

PictureTypes ==
    /\ present \subseteq Camera /\ cams \subseteq Camera
    /\ scene \in Scene /\ dirty \in BOOLEAN
    /\ preview \in Source /\ active \in Source

OutputTypes ==
    /\ program \in Scene /\ aired \in Scene
    /\ switching \in Seq(Scene) /\ snapping \in Nat

LinkTypes ==
    /\ wire \in Seq(Message)
    /\ bridge \in [source: Source, started: BOOLEAN]

HistoryTypes ==
    /\ joins \in 0..MaxJoins /\ presses \in 0..MaxPresses
    /\ wanted \in Scene /\ overlaps \subseteq Overlap

\* Every edit and every cut under way is counted among the presses.
Counted ==
    /\ scene.rev <= presses
    /\ snapping + Len(switching) <= presses

StudioInv ==
    /\ PageTypes /\ RoomTypes /\ PictureTypes /\ OutputTypes /\ LinkTypes
    /\ HistoryTypes /\ Counted

\* What awaits an answer in a Studio that is not left while anything does: one join,
\* of rooms that are not there yet, or the handlers of a page that is connected.
Pending == {j \in 1..MaxJoins : join[j] # "none"}

Session ==
    /\ connecting = (Pending # {})
    /\ \A i, j \in Pending : i = j
    /\ (status = "connecting") = (Pending # {})
    /\ job.kind = "none" => job = NoJob
    /\ job.kind = "start" => status = "ready"
    /\ job.kind = "stop" => status = "live"
    /\ ~IsConnected => switching = <<>> /\ snapping = 0 /\ wire = <<>> /\ mon = 0
    /\ status \in {"idle", "error"} => pub = 0
    /\ \A j \in Pending : join[j] = "source" => pub = 0
    /\ open \subseteq {<<"source", pub>>, <<"monitor", mon>>}

SessionInv == Unless({"leaveInFlight"}) => Session

\* A connected page's rooms are up unless one was lost.
Up ==
    /\ IsConnected => SourceUp /\ MonitorUp
    /\ \A j \in Pending : join[j] # "source" => SourceUp

UpInv == Unless({"leaveInFlight", "roomLost"}) => Up

\* What is clean is the program's, and all that is on its way is of the one scene
\* that nobody edits meanwhile.
Edits ==
    /\ ~dirty \/ snapping > 0 => program.rev = scene.rev
    /\ job.kind = "start" => job.scene.rev = scene.rev
    /\ \A n \in 1..Len(switching) : switching[n].rev = scene.rev

EditsInv == Unless({"editInFlight"}) => Edits

\* What the bridge does once it has caught up: whether it is on air, and the camera it
\* forwards, that of the last message which names one.
OnAir == IF wire = <<>> THEN bridge.started
                        ELSE wire[Len(wire)].type # "program-stop"

Stops(n) == wire[n].type = "program-stop"
Final    == {src \in Source :
                \/ (\A n \in 1..Len(wire) : Stops(n)) /\ bridge.source = src
                \/ \E n \in 1..Len(wire) :
                      /\ ~Stops(n) /\ wire[n].camera = src
                      /\ \A m \in (n + 1)..Len(wire) : Stops(m)}

\* It will be on air for a Start that has told it so, or for a page that is live.
AirOfPage ==
    OnAir => \/ status = "live" /\ job.kind # "stop"
             \/ job.kind = "start" /\ job.step \in {"sending", "snapshot"}

AirInv ==
    Unless({"cutInStop", "leaveInFlight", "leftOnAir", "roomLost", "failed"})
    => AirOfPage

\* A Start that nobody cuts in takes the active camera on air, step by step.
Starts(s) ==
    /\ s.camera = active /\ active # None /\ switching = <<>>
    /\ job.step \in {"sending", "snapshot"} => s.camera \in Final
    /\ job.step = "snapshot" => aired = s

\* The page that is live shows what the viewers get; each cut that has been sent is
\* the one the bridge runs to until the next.
Shows ==
    /\ \A n \in 1..Len(switching) : switching[n].camera # None
    /\ job.kind = "start" =>
        /\ Starts(job.scene)
        /\ job.step \in {"sending", "snapshot"} => program = job.scene /\ OnAir
    /\ status = "live" => aired = program /\ program.camera = active /\ active # None
    /\ status = "live" /\ job.kind # "stop" =>
        /\ OnAir
        /\ IF switching = <<>> THEN active \in Final
           ELSE switching[Len(switching)].camera \in Final

ShowsInv ==
    Unless({"cutInStart", "leaveInFlight", "sourceLost", "roomLost", "failed"})
    => Shows

\* The same of the last Cut or Start, where a cut is never pressed during another.
Wins ==
    /\ Len(switching) <= 1
    /\ switching # <<>> => wanted = switching[1] /\ wanted.camera # None
    /\ job.kind = "start" => wanted = job.scene /\ Starts(wanted)
    /\ status = "live" => wanted.camera \in Final
    /\ status = "live" /\ switching = <<>> =>
        aired = wanted /\ wanted.camera = active /\ active # None

WinsInv ==
    Unless({"cutInStart", "cutInCut", "leaveInFlight", "sourceLost", "roomLost"})
    => Wins

PageInv == SessionInv /\ UpInv /\ EditsInv
IInv    == StudioInv /\ PageInv /\ AirInv /\ ShowsInv /\ WinsInv

\* A message that is sent: a program-stop leaves the camera, any other names it.
LEMMA SentIsFinal ==
    ASSUME LinkTypes, NEW m \in Message, wire' = Append(wire, m), bridge' = bridge
    PROVE  /\ OnAir' <=> m.type # "program-stop"
           /\ m.type # "program-stop" => m.camera \in Final'
           /\ m.type = "program-stop" => Final \subseteq Final'
  <1>1. /\ wire' # <<>> /\ Len(wire') = Len(wire) + 1 /\ Len(wire) \in Nat
        /\ wire'[Len(wire')] = m /\ \A n \in 1..Len(wire) : wire'[n] = wire[n]
    BY AppendProperties, LenProperties DEF LinkTypes
  <1>2. OnAir' <=> m.type # "program-stop"
    BY <1>1 DEF OnAir
  <1>3. ASSUME m.type # "program-stop" PROVE m.camera \in Final'
    <2>1. m.camera \in Source
      BY DEF Message
    <2>2. PICK last \in 1..Len(wire') : last = Len(wire')
      BY <1>1
    <2>3. wire'[last] = m /\ (last + 1)..Len(wire') = {}
      BY <1>1, <2>2
    <2>4. ~Stops(last)'
      BY <1>3, <2>3 DEF Stops
    <2>5. QED
      BY <2>1, <2>3, <2>4 DEF Final
  <1>4. ASSUME m.type = "program-stop", NEW src \in Final PROVE src \in Final'
    <2>1. \A n \in 1..Len(wire) : Stops(n)' <=> Stops(n)
      BY <1>1 DEF Stops
    <2>2. wire'[Len(wire) + 1].type = "program-stop"
      BY <1>1, <1>4
    <2>3. src \in Source
      BY <1>4 DEF Final
    <2>4. CASE (\A n \in 1..Len(wire) : Stops(n)) /\ bridge.source = src
      <3>1. \A n \in 1..Len(wire') : Stops(n)'
        BY <1>1, <2>1, <2>2, <2>4 DEF Stops
      <3>2. QED
        BY <2>3, <2>4, <3>1 DEF Final
    <2>5. CASE \E n \in 1..Len(wire) : /\ ~Stops(n) /\ wire[n].camera = src
                                       /\ \A k \in (n + 1)..Len(wire) : Stops(k)
      <3>1. PICK n \in 1..Len(wire) : /\ ~Stops(n) /\ wire[n].camera = src
                                      /\ \A k \in (n + 1)..Len(wire) : Stops(k)
        BY <2>5
      <3>2. n \in 1..Len(wire') /\ wire'[n].camera = src
        BY <1>1, <3>1
      <3>3. \A k \in (n + 1)..Len(wire') : Stops(k)'
        BY <1>1, <2>1, <2>2, <3>1 DEF Stops
      <3>4. ~Stops(n)'
        BY <2>1, <3>1
      <3>5. QED
        BY <2>3, <3>2, <3>3, <3>4 DEF Final
    <2>6. QED
      BY <1>4, <2>4, <2>5 DEF Final
  <1>5. QED
    BY <1>2, <1>3, <1>4

\* The bridge takes a message without changing what it will come to.
LEMMA DeliveredIsFinal ==
    ASSUME LinkTypes, Deliver
    PROVE  /\ OnAir' <=> OnAir
           /\ Final \subseteq Final'
           /\ LinkTypes'
  <1>1. /\ wire # <<>> /\ wire \in Seq(Message) /\ wire' = Tail(wire)
        /\ bridge \in [source: Source, started: BOOLEAN] /\ bridge' = Handle(Head(wire))
    BY DEF Deliver, LinkTypes
  <1>2. Head(wire) = wire[1] /\ Len(wire) \in Nat /\ Len(wire) # 0
    BY <1>1
  <1>3. /\ Head(wire) \in Message /\ Tail(wire) \in Seq(Message)
        /\ Len(wire') = Len(wire) - 1 /\ \A n \in 1..Len(wire') : wire'[n] = wire[n + 1]
    BY <1>1, HeadTailProperties
  <1>4. bridge' \in [source: Source, started: BOOLEAN]
    BY <1>1, <1>3 DEF Handle, Message
  <1>5. bridge'.started <=> wire[1].type # "program-stop"
    BY <1>1, <1>2, <1>3 DEF Handle, Message
  <1>6. OnAir' <=> OnAir
    <2>1. CASE Len(wire) = 1
      <3>1. wire' = <<>>
        BY <1>1, <1>3, <2>1, EmptySeq
      <3>2. QED
        BY <1>1, <1>5, <2>1, <3>1 DEF OnAir
    <2>2. CASE Len(wire) # 1
      <3>1. wire' # <<>>
        BY <1>2, <1>3, <2>2, EmptySeq
      <3>3. wire'[Len(wire')] = wire[Len(wire)]
        <4>1. Len(wire') \in 1..Len(wire') /\ Len(wire') + 1 = Len(wire)
          BY <1>2, <1>3, <2>2
        <4>2. QED
          BY <1>3, <4>1
      <3>2. QED
        BY <1>1, <3>1, <3>3 DEF OnAir
    <2>3. QED
      BY <2>1, <2>2
  <1>7. ASSUME NEW src \in Final PROVE src \in Final'
    <2>1. \A n \in 1..Len(wire') : Stops(n)' <=> Stops(n + 1)
      BY <1>3 DEF Stops
    <2>2. src \in Source
      BY <1>7 DEF Final
    <2>3. ASSUME \A n \in 2..Len(wire) : Stops(n), bridge'.source = src
          PROVE  src \in Final'
      <3>1. \A n \in 1..Len(wire') : n + 1 \in 2..Len(wire)
        BY <1>2, <1>3
      <3>2. \A n \in 1..Len(wire') : Stops(n)'
        BY <2>1, <2>3, <3>1
      <3>3. QED
        BY <2>2, <2>3, <3>2 DEF Final
    <2>4. CASE (\A n \in 1..Len(wire) : Stops(n)) /\ bridge.source = src
      <3>1. Stops(1) /\ \A n \in 2..Len(wire) : Stops(n)
        BY <1>2, <2>4
      <3>2. bridge'.source = src
        BY <1>1, <1>2, <2>4, <3>1 DEF Handle, Stops
      <3>3. QED
        BY <2>3, <3>1, <3>2
    <2>5. CASE \E n \in 1..Len(wire) : /\ ~Stops(n) /\ wire[n].camera = src
                                       /\ \A k \in (n + 1)..Len(wire) : Stops(k)
      <3>1. PICK n \in 1..Len(wire) : /\ ~Stops(n) /\ wire[n].camera = src
                                      /\ \A k \in (n + 1)..Len(wire) : Stops(k)
        BY <2>5
      <3>2. CASE n = 1
        <4>1. bridge'.source = src
          BY <1>1, <1>2, <3>1, <3>2 DEF Handle, Stops
        <4>2. QED
          BY <2>3, <3>1, <3>2, <4>1
      <3>3. CASE n # 1
        <4>1. n - 1 \in 1..Len(wire') /\ wire'[n - 1] = wire[n]
          BY <1>2, <1>3, <3>1, <3>3
        <4>2. ~Stops(n - 1)'
          BY <2>1, <3>1, <4>1 DEF Stops
        <4>3. \A k \in ((n - 1) + 1)..Len(wire') : Stops(k)'
          <5>1. TAKE k \in ((n - 1) + 1)..Len(wire')
          <5>2. k \in 1..Len(wire') /\ k + 1 \in (n + 1)..Len(wire)
            BY <1>2, <1>3, <3>1
          <5>3. QED
            BY <2>1, <3>1, <5>2
        <4>4. QED
          BY <2>2, <3>1, <4>1, <4>2, <4>3 DEF Final
      <3>4. QED
        BY <3>2, <3>3
    <2>6. QED
      BY <1>7, <2>4, <2>5 DEF Final
  <1>8. QED
    BY <1>1, <1>3, <1>4, <1>6, <1>7 DEF LinkTypes

\* Messages that are lost are the last ones.
LEMMA LostTypes ==
    ASSUME wire \in Seq(Message), LoseMessages
    PROVE  wire' \in Seq(Message) /\ (wire = <<>> => wire' = <<>>)
  <1>1. Len(wire) \in Nat
    BY LenProperties
  <1>2. PICK k \in 0..Len(wire) : wire' = SubSeq(wire, 1, k)
    BY DEF LoseMessages
  <1>3. wire' \in Seq(Message)
    BY <1>1, <1>2
  <1>4. wire = <<>> => wire' = <<>>
    BY <1>1, <1>2, <1>3, EmptySeq
  <1>5. QED
    BY <1>3, <1>4

\* A page that lets go of its rooms has no cameras, and may lose messages.
LEMMA Disconnected ==
    ASSUME StudioInv, DisconnectAll
    PROVE  /\ open' = open \ {<<"source", pub>>, <<"monitor", mon>>}
           /\ pub' = 0 /\ mon' = 0 /\ cams' = {} /\ preview' = None /\ active' = None
           /\ UNCHANGED <<scene, dirty, bridge>>
           /\ wire' \in Seq(Message) /\ (wire = <<>> => wire' = <<>>)
           /\ pub = 0 => wire' = wire
  <1>1. wire \in Seq(Message)
    BY DEF StudioInv, LinkTypes
  <1>2. wire' \in Seq(Message) /\ (wire = <<>> => wire' = <<>>)
    BY <1>1, LostTypes DEF DisconnectAll
  <1>3. pub = 0 => ~SourceUp
    BY StudioAssumption DEF SourceUp, StudioInv, RoomTypes, Room
  <1>4. QED
    BY <1>2, <1>3 DEF DisconnectAll

\* What updateCameras writes.
LEMMA UpdatedCameras ==
    ASSUME PictureTypes, HistoryTypes, NEW cs \in SUBSET Camera,
           NEW names \in SUBSET Overlap, UpdateCameras(cs, names)
    PROVE  /\ cams' \subseteq Camera /\ preview' \in Source /\ active' \in Source
           /\ UNCHANGED <<scene, dirty>>
           /\ overlaps' \subseteq Overlap
           /\ "sourceLost" \notin overlaps' /\ active # None
              /\ (status = "live" \/ job.kind = "start" \/ switching # <<>>)
              => active' = active
  BY DEF UpdateCameras, PictureTypes, HistoryTypes, Note, If, Overlap, Source

\* What a message does to the wire: it is last, so it is the final word.
LEMMA SentTypes ==
    ASSUME LinkTypes, NEW type \in {"program-start", "program-switch", "program-stop"},
           NEW c \in Source, Send(type, c), bridge' = bridge
    PROVE  /\ LinkTypes' /\ (OnAir' <=> type # "program-stop")
           /\ type # "program-stop" => c \in Final'
           /\ type = "program-stop" => Final \subseteq Final'
  <1>1. [type |-> type, camera |-> c] \in Message
    BY DEF Message
  <1>2. wire' = Append(wire, [type |-> type, camera |-> c]) /\ wire' \in Seq(Message)
    BY <1>1 DEF Send, LinkTypes
  <1>3. LinkTypes'
    BY <1>2 DEF LinkTypes
  <1>4. QED
    BY <1>1, <1>2, <1>3, SentIsFinal

\* The cut at the head of those that wait.
LEMMA FirstCut ==
    ASSUME OutputTypes, switching # <<>>, switching' = Tail(switching)
    PROVE  /\ Head(switching) = switching[1] /\ switching[1] \in Scene
           /\ switching' \in Seq(Scene) /\ Len(switching) \in Nat
           /\ 1 \in 1..Len(switching)
           /\ Len(switching') = Len(switching) - 1
           /\ \A n \in 1..Len(switching') :
                switching'[n] = switching[n + 1] /\ n + 1 \in 1..Len(switching)
           /\ IF switching' = <<>>
              THEN Len(switching) = 1
              ELSE switching'[Len(switching')] = switching[Len(switching)]
  <1>1. switching \in Seq(Scene) /\ Len(switching) \in Nat /\ Len(switching) # 0
    BY EmptySeq, LenProperties DEF OutputTypes
  <1>2. Head(switching) = switching[1]
    BY <1>1
  <1>3. /\ Head(switching) \in Scene /\ switching' \in Seq(Scene)
        /\ Len(switching') = Len(switching) - 1
        /\ \A n \in 1..Len(switching') : switching'[n] = switching[n + 1]
    BY <1>1, HeadTailProperties
  <1>4. switching' = <<>> => Len(switching) = 1
    <2>1. switching' = <<>> => Len(switching') = 0
      OBVIOUS
    <2>2. QED
      BY <1>1, <1>3, <2>1
  <1>5. switching' # <<>> => switching'[Len(switching')] = switching[Len(switching)]
    <2>1. switching' # <<>> => Len(switching') \in 1..Len(switching')
      BY <1>1, <1>3, EmptySeq
    <2>2. Len(switching') + 1 = Len(switching)
      BY <1>1, <1>3
    <2>3. QED
      BY <1>3, <2>1, <2>2
  <1>6. \A n \in 1..Len(switching') : n + 1 \in 1..Len(switching)
    BY <1>1, <1>3
  <1>7. QED
    BY <1>1, <1>2, <1>3, <1>4, <1>5, <1>6

\* A cut that joins those that wait.
LEMMA LastCut ==
    ASSUME OutputTypes, NEW s \in Scene, switching' = Append(switching, s)
    PROVE  /\ switching' \in Seq(Scene) /\ switching' # <<>>
           /\ Len(switching) \in Nat /\ Len(switching') = Len(switching) + 1
           /\ switching'[Len(switching')] = s
           /\ \A n \in 1..Len(switching') :
                switching'[n] = s \/ (n \in 1..Len(switching) /\ switching'[n] = switching[n])
           /\ switching = <<>> => Len(switching') = 1 /\ switching'[1] = s
  <1>1. switching \in Seq(Scene) /\ Len(switching) \in Nat
    BY LenProperties DEF OutputTypes
  <1>2. /\ switching' \in Seq(Scene) /\ switching' # <<>>
        /\ Len(switching') = Len(switching) + 1
        /\ switching'[Len(switching) + 1] = s
        /\ \A n \in 1..Len(switching) : switching'[n] = switching[n]
    BY <1>1, AppendProperties
  <1>3. QED
    BY <1>1, <1>2, EmptySeq

\* A step keeps the types, and what is counted within the presses.
LEMMA StudioNext ==
    ASSUME StudioInv, Next
    PROVE  StudioInv'
  <1> USE StudioAssumption DEF StudioInv
  <1>1. ASSUME NEW c \in Camera, CameraMoves(c) PROVE StudioInv'
    <2>1. PageTypes'
      BY <1>1 DEF CameraMoves, PageTypes, Status, Scene, Source, PictureTypes,
         rooms, picture, output, link
    <2>2. RoomTypes'
      BY <1>1 DEF CameraMoves, RoomTypes, Room, HistoryTypes, rooms, picture,
         output, link
    <2>3. PictureTypes'
      <3>1. present' \subseteq Camera
        BY <1>1 DEF CameraMoves, PictureTypes
      <3>2. CASE UpdateCameras(present', {})
        BY <3>1, <3>2, UpdatedCameras DEF PictureTypes
      <3>3. CASE UNCHANGED picture
        BY <3>1, <3>3 DEF PictureTypes, picture
      <3>4. QED
        BY <1>1, <3>2, <3>3 DEF CameraMoves
    <2>4. OutputTypes'
      BY <1>1 DEF CameraMoves, OutputTypes, PageTypes, PictureTypes, Scene, Source,
         rooms, picture, output, link
    <2>5. LinkTypes'
      BY <1>1 DEF CameraMoves, LinkTypes, rooms, picture, output, link
    <2>6. HistoryTypes'
      <3>1. present' \subseteq Camera
        BY <1>1 DEF CameraMoves, PictureTypes
      <3>2. overlaps' \subseteq Overlap
        BY <1>1, <3>1, UpdatedCameras DEF CameraMoves, HistoryTypes
      <3>3. QED
        BY <1>1, <3>2 DEF CameraMoves, HistoryTypes, Press
    <2>7. Counted'
      <3>1. scene' = scene
        BY <1>1 DEF CameraMoves, UpdateCameras, picture
      <3>2. QED
        BY <1>1, <3>1 DEF CameraMoves, Counted, Press, HistoryTypes, output,
           PictureTypes, Scene, OutputTypes
    <2>8. QED
      BY <2>1, <2>2, <2>3, <2>4, <2>5, <2>6, <2>7
  <1>2. ASSUME NEW c \in Camera, DisconnectSource(c) PROVE StudioInv'
    <2>1. /\ PageTypes' /\ RoomTypes' /\ PictureTypes' /\ OutputTypes'
          /\ LinkTypes' /\ HistoryTypes' /\ Counted'
      BY <1>2 DEF DisconnectSource, PageTypes, Status, Scene, Source, PictureTypes,
         rooms, picture, output, link, RoomTypes, Room, HistoryTypes, OutputTypes,
         Press, Counted, LinkTypes, Note, If, Overlap
    <2>2. QED
      BY <2>1
  <1>3. ASSUME NEW j \in 1..MaxJoins, ConnectStudio(j) PROVE StudioInv'
    <2>1. PageTypes' /\ RoomTypes' /\ PictureTypes' /\ OutputTypes'
      BY <1>3, Disconnected, StudioAssumption DEF ConnectStudio, PageTypes, Status,
         Scene, Source, PictureTypes, picture, output, StudioInv, RoomTypes, Room,
         OutputTypes
    <2>2. LinkTypes' /\ HistoryTypes' /\ Counted'
      BY <1>3, Disconnected, StudioAssumption DEF ConnectStudio, LinkTypes,
         HistoryTypes, Note, Overlap, PictureTypes, PageTypes, Scene, Source,
         picture, output, Counted, OutputTypes
    <2>3. QED
      BY <2>1, <2>2
  <1>4. ASSUME NEW j \in 1..MaxJoins, JoinSource(j) PROVE StudioInv'
    <2>1. PageTypes' /\ RoomTypes'
      BY <1>4, StudioAssumption DEF JoinSource, PageTypes, Status, Scene, Source,
         PictureTypes, picture, output, link, RoomTypes, Room
    <2>2. PictureTypes' /\ OutputTypes' /\ LinkTypes' /\ HistoryTypes' /\ Counted'
      BY <1>4, UpdatedCameras DEF JoinSource, PictureTypes, OutputTypes, PageTypes,
         Scene, Source, picture, output, link, LinkTypes, HistoryTypes, Counted
    <2>3. QED
      BY <2>1, <2>2
  <1>5. ASSUME NEW j \in 1..MaxJoins, EnsureProgramBridge(j) PROVE StudioInv'
    <2>1. /\ PageTypes' /\ RoomTypes' /\ PictureTypes' /\ OutputTypes'
          /\ LinkTypes' /\ HistoryTypes' /\ Counted'
      BY <1>5 DEF EnsureProgramBridge, PageTypes, Status, Scene, Source,
         PictureTypes, picture, output, link, history, RoomTypes, Room,
         HistoryTypes, OutputTypes, Counted, LinkTypes, Note, Overlap
    <2>2. QED
      BY <2>1
  <1>6. ASSUME NEW j \in 1..MaxJoins, JoinMonitor(j) PROVE StudioInv'
    <2>1. PageTypes'
      BY <1>6 DEF JoinMonitor, PageTypes, Status, Scene, Source, PictureTypes,
         picture, output, link, history
    <2>2. RoomTypes'
      <3>1. connecting' \in BOOLEAN
        BY <1>6 DEF JoinMonitor
      <3>2. open' \subseteq Room /\ pub' \in 0..MaxJoins /\ mon' \in 0..MaxJoins
        BY <1>6, Disconnected, StudioAssumption DEF JoinMonitor, RoomTypes, Room,
           StudioInv
      <3>3. join' \in [1..MaxJoins -> {"none", "source", "bridge", "monitor"}]
        BY <1>6 DEF JoinMonitor, RoomTypes
      <3>4. QED
        BY <3>1, <3>2, <3>3 DEF RoomTypes
    <2>3. PictureTypes'
      BY <1>6 DEF JoinMonitor, PictureTypes, Source, Scene, OutputTypes,
         HistoryTypes, Counted, picture, output, link, history
    <2>4. OutputTypes'
      BY <1>6 DEF JoinMonitor, OutputTypes, PageTypes, PictureTypes, Scene, Source,
         picture, output, link, history
    <2>5. LinkTypes'
      BY <1>6 DEF JoinMonitor, LinkTypes, picture, output, link, history
    <2>6. HistoryTypes'
      BY <1>6 DEF JoinMonitor, HistoryTypes, Note, Overlap, PictureTypes, PageTypes,
         Scene, Source, picture, output, link, history
    <2>7. Counted'
      BY <1>6 DEF JoinMonitor, Counted, HistoryTypes, OutputTypes, PictureTypes,
         Scene, picture, output, link, history
    <2>8. QED
      BY <2>1, <2>2, <2>3, <2>4, <2>5, <2>6, <2>7
  <1>7. ASSUME NEW j \in 1..MaxJoins, JoinFails(j) PROVE StudioInv'
    <2>1. PageTypes'
      BY <1>7 DEF JoinFails, PageTypes, Status, Scene, Source, PictureTypes,
         picture, output
    <2>2. RoomTypes'
      <3>1. connecting' \in BOOLEAN
        BY <1>7 DEF JoinFails
      <3>2. open' \subseteq Room /\ pub' \in 0..MaxJoins /\ mon' \in 0..MaxJoins
        BY <1>7, Disconnected, StudioAssumption DEF JoinFails, RoomTypes, Room,
           StudioInv
      <3>3. join' \in [1..MaxJoins -> {"none", "source", "bridge", "monitor"}]
        BY <1>7 DEF JoinFails, RoomTypes
      <3>4. QED
        BY <3>1, <3>2, <3>3 DEF RoomTypes
    <2>3. PictureTypes'
      BY <1>7, Disconnected, StudioAssumption DEF JoinFails, PictureTypes, Source
    <2>4. OutputTypes'
      BY <1>7 DEF JoinFails, OutputTypes, PageTypes, PictureTypes, Scene, Source,
         picture, output
    <2>5. LinkTypes'
      BY <1>7, Disconnected DEF JoinFails, LinkTypes
    <2>6. HistoryTypes'
      BY <1>7 DEF JoinFails, HistoryTypes, Press, Note, Overlap, PictureTypes,
         PageTypes, Scene, Source, picture, output
    <2>7. Counted'
      BY <1>7, Disconnected, StudioAssumption DEF JoinFails, Counted, Press,
         HistoryTypes, PictureTypes, Scene, output, OutputTypes
    <2>8. QED
      BY <2>1, <2>2, <2>3, <2>4, <2>5, <2>6, <2>7
  <1>8. ASSUME LeaveStudio PROVE StudioInv'
    <2>1. PageTypes'
      BY <1>8 DEF LeaveStudio, PageTypes, Status, Scene, Source, PictureTypes,
         picture, output
    <2>2. RoomTypes'
      <3>1. connecting' \in BOOLEAN
        BY <1>8 DEF LeaveStudio
      <3>2. open' \subseteq Room /\ pub' \in 0..MaxJoins /\ mon' \in 0..MaxJoins
        BY <1>8, Disconnected, StudioAssumption DEF LeaveStudio, RoomTypes, Room,
           StudioInv
      <3>3. join' \in [1..MaxJoins -> {"none", "source", "bridge", "monitor"}]
        BY <1>8 DEF LeaveStudio, RoomTypes
      <3>4. QED
        BY <3>1, <3>2, <3>3 DEF RoomTypes
    <2>3. PictureTypes'
      BY <1>8, Disconnected, StudioAssumption DEF LeaveStudio, PictureTypes, Source
    <2>4. OutputTypes'
      BY <1>8 DEF LeaveStudio, OutputTypes, PageTypes, PictureTypes, Scene, Source,
         picture, output
    <2>5. LinkTypes'
      BY <1>8, Disconnected DEF LeaveStudio, LinkTypes
    <2>6. HistoryTypes'
      BY <1>8 DEF LeaveStudio, HistoryTypes, Note, If, Overlap, PictureTypes,
         PageTypes, Scene, Source, picture, output
    <2>7. Counted'
      BY <1>8, Disconnected, StudioAssumption DEF LeaveStudio, Counted,
         HistoryTypes, PictureTypes, Scene, output, OutputTypes
    <2>8. QED
      BY <2>1, <2>2, <2>3, <2>4, <2>5, <2>6, <2>7
  <1>9. ASSUME NEW r \in Room, LoseRoom(r) PROVE StudioInv'
    <2>1. PageTypes'
      BY <1>9 DEF LoseRoom, PageTypes, Status, Scene, Source, PictureTypes, picture,
         output
    <2>2. RoomTypes'
      BY <1>9 DEF LoseRoom, RoomTypes, Room, HistoryTypes, picture, output
    <2>3. PictureTypes'
      <3>1. CASE UpdateCameras({}, {"roomLost"})
        BY <1>9, <3>1, UpdatedCameras DEF LoseRoom, PictureTypes, Overlap
      <3>2. CASE UNCHANGED picture
        BY <1>9, <3>2 DEF LoseRoom, PictureTypes, picture
      <3>3. QED
        BY <1>9, <3>1, <3>2 DEF LoseRoom
    <2>4. OutputTypes'
      BY <1>9 DEF LoseRoom, OutputTypes, PageTypes, PictureTypes, Scene, Source,
         picture, output
    <2>5. LinkTypes'
      BY <1>9, LostTypes DEF LoseRoom, LinkTypes
    <2>6. HistoryTypes'
      <3>1. overlaps' \subseteq Overlap
        <4>1. CASE UpdateCameras({}, {"roomLost"})
          BY <4>1, UpdatedCameras DEF Overlap
        <4>2. CASE Note({"roomLost"})
          BY <4>2 DEF Note, Overlap, HistoryTypes
        <4>3. QED
          BY <1>9, <4>1, <4>2 DEF LoseRoom
      <3>2. QED
        BY <1>9, <3>1 DEF LoseRoom, HistoryTypes, Press
    <2>7. Counted'
      <3>1. scene' = scene
        BY <1>9 DEF LoseRoom, UpdateCameras, picture
      <3>2. QED
        BY <1>9, <3>1 DEF LoseRoom, Counted, Press, HistoryTypes, output,
           PictureTypes, Scene, OutputTypes
    <2>8. QED
      BY <2>1, <2>2, <2>3, <2>4, <2>5, <2>6, <2>7
  <1>10. ASSUME NEW c \in Source, SelectCameraSource(c) PROVE StudioInv'
    <2>1. PageTypes' /\ RoomTypes' /\ PictureTypes' /\ OutputTypes'
      BY <1>10 DEF SelectCameraSource, Edit, PageTypes, Status, Scene, Source,
         PictureTypes, rooms, picture, output, link, RoomTypes, Room, HistoryTypes,
         OutputTypes, Press, Counted
    <2>2. LinkTypes' /\ HistoryTypes' /\ Counted'
      BY <1>10 DEF SelectCameraSource, Edit, LinkTypes, rooms, picture, output,
         link, HistoryTypes, Press, Note, If, Overlap, PictureTypes, PageTypes,
         Scene, Source, Counted, OutputTypes
    <2>3. QED
      BY <2>1, <2>2
  <1>11. ASSUME UpdateSceneLayers PROVE StudioInv'
    <2>1. PageTypes' /\ RoomTypes' /\ PictureTypes' /\ OutputTypes'
      BY <1>11 DEF UpdateSceneLayers, Edit, PageTypes, Status, Scene, Source,
         PictureTypes, rooms, picture, output, link, RoomTypes, Room, HistoryTypes,
         OutputTypes, Press, Counted
    <2>2. LinkTypes' /\ HistoryTypes' /\ Counted'
      BY <1>11 DEF UpdateSceneLayers, Edit, LinkTypes, rooms, picture, output, link,
         HistoryTypes, Press, Note, If, Overlap, PictureTypes, PageTypes, Scene,
         Source, Counted, OutputTypes
    <2>3. QED
      BY <2>1, <2>2
  <1>12. ASSUME CutSwitch PROVE StudioInv'
    <2>1. PageTypes'
      BY <1>12 DEF CutSwitch, PressCut, Send, Previewed, PageTypes, Status, Scene,
         Source, PictureTypes, rooms, picture
    <2>2. RoomTypes'
      BY <1>12 DEF CutSwitch, PressCut, Send, Previewed, RoomTypes, Room,
         HistoryTypes, rooms, picture
    <2>3. PictureTypes'
      BY <1>12 DEF CutSwitch, PressCut, Send, Previewed, PictureTypes, Source,
         Scene, OutputTypes, Press, HistoryTypes, Counted, rooms, picture
    <2>4. OutputTypes'
      <3>1. Previewed \in Scene
        BY DEF Previewed, PictureTypes, Scene
      <3>2. QED
        BY <1>12, <3>1, LastCut DEF CutSwitch, OutputTypes
    <2>5. LinkTypes'
      BY <1>12, SentTypes DEF CutSwitch, PictureTypes, Source, PageTypes, Scene
    <2>6. HistoryTypes'
      BY <1>12 DEF CutSwitch, PressCut, Send, Previewed, HistoryTypes, Press, Note,
         If, Overlap, PictureTypes, PageTypes, Scene, Source, rooms, picture
    <2>7. Counted'
      <3>1. Previewed \in Scene
        BY DEF Previewed, PictureTypes, Scene
      <3>2. /\ Len(switching) \in Nat /\ Len(switching') = Len(switching) + 1
            /\ snapping' = snapping
        BY <1>12, <3>1, LastCut DEF CutSwitch
      <3>3. presses' = presses + 1 /\ scene' = scene
        BY <1>12 DEF CutSwitch, PressCut, Press, picture
      <3>4. QED
        BY <3>2, <3>3 DEF Counted, HistoryTypes, OutputTypes, PictureTypes, Scene
    <2>8. QED
      BY <2>1, <2>2, <2>3, <2>4, <2>5, <2>6, <2>7
  <1>13. ASSUME CutLocal PROVE StudioInv'
    <2>1. PageTypes' /\ RoomTypes'
      BY <1>13 DEF CutLocal, PressCut, CutEnabled, Snapshot, Previewed, PageTypes,
         Status, Scene, Source, PictureTypes, rooms, picture, link, RoomTypes, Room,
         HistoryTypes
    <2>2. PictureTypes' /\ OutputTypes'
      BY <1>13 DEF CutLocal, PressCut, CutEnabled, Snapshot, Previewed,
         PictureTypes, Source, Scene, OutputTypes, Press, HistoryTypes, Counted,
         rooms, picture, link, PageTypes
    <2>3. LinkTypes' /\ HistoryTypes'
      BY <1>13 DEF CutLocal, PressCut, CutEnabled, Snapshot, Previewed, LinkTypes,
         rooms, picture, link, HistoryTypes, Press, Note, If, Overlap, PictureTypes,
         PageTypes, Scene, Source
    <2>4. Counted'
      BY <1>13 DEF CutLocal, PressCut, CutEnabled, Snapshot, Previewed, Counted,
         Press, HistoryTypes, OutputTypes, PictureTypes, Scene, rooms, picture, link
    <2>5. QED
      BY <2>1, <2>2, <2>3, <2>4
  <1>14. ASSUME CutSwitched PROVE StudioInv'
    <2>1. PageTypes' /\ RoomTypes'
      BY <1>14 DEF CutSwitched, Snapshot, PageTypes, Status, Scene, Source,
         PictureTypes, rooms, picture, link, history, RoomTypes, Room, HistoryTypes
    <2>2. PictureTypes' /\ OutputTypes'
      BY <1>14, FirstCut DEF CutSwitched, PictureTypes, Scene, Snapshot, OutputTypes
    <2>3. LinkTypes' /\ HistoryTypes'
      BY <1>14 DEF CutSwitched, Snapshot, LinkTypes, rooms, picture, link, history,
         HistoryTypes, Note, Overlap, PictureTypes, PageTypes, Scene, Source
    <2>4. Counted'
      BY <1>14, FirstCut DEF CutSwitched, Counted, OutputTypes, HistoryTypes,
         history
    <2>5. QED
      BY <2>1, <2>2, <2>3, <2>4
  <1>15. ASSUME CutRejected PROVE StudioInv'
    <2>1. PageTypes' /\ RoomTypes'
      BY <1>15 DEF CutRejected, PageTypes, Status, Scene, Source, PictureTypes,
         rooms, picture, link, history, RoomTypes, Room, HistoryTypes
    <2>2. PictureTypes' /\ OutputTypes' /\ LinkTypes' /\ HistoryTypes'
      BY <1>15, FirstCut DEF CutRejected, PictureTypes, Source, Scene, OutputTypes,
         HistoryTypes, Counted, rooms, picture, link, history, LinkTypes, Note,
         Overlap, PageTypes
    <2>3. Counted'
      BY <1>15, FirstCut DEF CutRejected, Counted, OutputTypes, HistoryTypes,
         picture, history
    <2>4. QED
      BY <2>1, <2>2, <2>3
  <1>16. ASSUME CutDone PROVE StudioInv'
    <2>1. PageTypes' /\ RoomTypes'
      BY <1>16 DEF CutDone, PageTypes, Status, Scene, Source, PictureTypes, rooms,
         picture, link, history, RoomTypes, Room, HistoryTypes
    <2>2. PictureTypes'
      BY <1>16 DEF CutDone, PictureTypes, Source, Scene, OutputTypes, HistoryTypes,
         Counted, rooms, picture, link, history
    <2>3. OutputTypes'
      BY <1>16 DEF CutDone, OutputTypes, PageTypes, PictureTypes, Scene, Source,
         rooms, picture, link, history
    <2>4. LinkTypes' /\ HistoryTypes' /\ Counted'
      BY <1>16 DEF CutDone, LinkTypes, rooms, picture, link, history, HistoryTypes,
         Note, Overlap, PictureTypes, PageTypes, Scene, Source, Counted, OutputTypes
    <2>5. QED
      BY <2>1, <2>2, <2>3, <2>4
  <1>17. ASSUME StartBroadcast PROVE StudioInv'
    <2>1. PageTypes' /\ RoomTypes' /\ PictureTypes' /\ OutputTypes' /\ LinkTypes'
      BY <1>17 DEF StartBroadcast, PageTypes, Status, NoJob, Blank, Scene, Source,
         PictureTypes, rooms, picture, output, link, RoomTypes, Room, HistoryTypes,
         OutputTypes, Press, Counted, LinkTypes
    <2>2. HistoryTypes'
      BY <1>17 DEF StartBroadcast, HistoryTypes, Press, Note, If, Overlap,
         PictureTypes, PageTypes, Scene, Source, rooms, picture, output, link
    <2>3. Counted'
      BY <1>17 DEF StartBroadcast, Counted, Press, HistoryTypes, OutputTypes,
         PictureTypes, Scene, rooms, picture, output, link
    <2>4. QED
      BY <2>1, <2>2, <2>3
  <1>18. ASSUME StartMixed PROVE StudioInv'
    <2>1. /\ PageTypes' /\ RoomTypes' /\ PictureTypes' /\ OutputTypes'
          /\ LinkTypes' /\ HistoryTypes' /\ Counted'
      BY <1>18, SentTypes DEF StartMixed, Send, PageTypes, Status, Scene, Source,
         PictureTypes, rooms, picture, history, RoomTypes, Room, HistoryTypes,
         OutputTypes, Counted, Note, Overlap
    <2>2. QED
      BY <2>1
  <1>19. ASSUME StartSent PROVE StudioInv'
    <2>1. PageTypes' /\ RoomTypes' /\ PictureTypes' /\ OutputTypes'
      BY <1>19 DEF StartSent, Snapshot, PageTypes, Status, Scene, Source,
         PictureTypes, rooms, picture, link, history, RoomTypes, Room, HistoryTypes,
         OutputTypes, Counted
    <2>2. LinkTypes' /\ HistoryTypes' /\ Counted'
      BY <1>19 DEF StartSent, Snapshot, LinkTypes, rooms, picture, link, history,
         HistoryTypes, Note, Overlap, PictureTypes, PageTypes, Scene, Source,
         Counted, OutputTypes
    <2>3. QED
      BY <2>1, <2>2
  <1>20. ASSUME StartDone PROVE StudioInv'
    <2>1. /\ PageTypes' /\ RoomTypes' /\ PictureTypes' /\ OutputTypes'
          /\ LinkTypes' /\ HistoryTypes' /\ Counted'
      BY <1>20 DEF StartDone, PageTypes, Status, NoJob, Blank, Scene, Source,
         PictureTypes, rooms, picture, output, link, history, RoomTypes, Room,
         HistoryTypes, OutputTypes, Counted, LinkTypes, Note, Overlap
    <2>2. QED
      BY <2>1
  <1>21. ASSUME StartFails PROVE StudioInv'
    <2>1. PageTypes' /\ RoomTypes'
      BY <1>21 DEF StartFails, PageTypes, Status, NoJob, Blank, Scene, Source,
         PictureTypes, rooms, picture, link, RoomTypes, Room, HistoryTypes
    <2>2. PictureTypes' /\ OutputTypes'
      BY <1>21 DEF StartFails, PictureTypes, Source, Scene, OutputTypes, Press,
         HistoryTypes, Counted, rooms, picture, link, PageTypes
    <2>3. LinkTypes' /\ HistoryTypes' /\ Counted'
      BY <1>21 DEF StartFails, LinkTypes, rooms, picture, link, HistoryTypes, Press,
         Note, Overlap, PictureTypes, PageTypes, Scene, Source, Counted, OutputTypes
    <2>4. QED
      BY <2>1, <2>2, <2>3
  <1>22. ASSUME StopBroadcast PROVE StudioInv'
    <2>1. /\ PageTypes' /\ RoomTypes' /\ PictureTypes' /\ OutputTypes'
          /\ LinkTypes' /\ HistoryTypes' /\ Counted'
      BY <1>22, SentTypes DEF StopBroadcast, Send, PageTypes, Status, NoJob, Blank,
         Scene, Source, PictureTypes, rooms, picture, output, history, RoomTypes,
         Room, HistoryTypes, OutputTypes, Counted, Note, Overlap
    <2>2. QED
      BY <2>1
  <1>23. ASSUME StopSent PROVE StudioInv'
    <2>1. PageTypes' /\ RoomTypes' /\ PictureTypes' /\ OutputTypes'
      BY <1>23 DEF StopSent, PageTypes, Status, Scene, Source, PictureTypes, rooms,
         picture, output, link, history, RoomTypes, Room, HistoryTypes, OutputTypes,
         Counted
    <2>2. LinkTypes' /\ HistoryTypes' /\ Counted'
      BY <1>23 DEF StopSent, LinkTypes, rooms, picture, output, link, history,
         HistoryTypes, Note, Overlap, PictureTypes, PageTypes, Scene, Source,
         Counted, OutputTypes
    <2>3. QED
      BY <2>1, <2>2
  <1>24. ASSUME StopDone PROVE StudioInv'
    <2>1. /\ PageTypes' /\ RoomTypes' /\ PictureTypes' /\ OutputTypes'
          /\ LinkTypes' /\ HistoryTypes' /\ Counted'
      BY <1>24 DEF StopDone, PageTypes, Status, NoJob, Blank, Scene, Source,
         PictureTypes, rooms, picture, output, link, history, RoomTypes, Room,
         HistoryTypes, OutputTypes, Counted, LinkTypes, Note, Overlap
    <2>2. QED
      BY <2>1
  <1>25. ASSUME StopFails PROVE StudioInv'
    <2>1. /\ PageTypes' /\ RoomTypes' /\ PictureTypes' /\ OutputTypes'
          /\ LinkTypes' /\ HistoryTypes' /\ Counted'
      BY <1>25 DEF StopFails, PageTypes, Status, NoJob, Blank, Scene, Source,
         PictureTypes, rooms, picture, output, link, RoomTypes, Room, HistoryTypes,
         OutputTypes, Press, Counted, LinkTypes, Note, Overlap
    <2>2. QED
      BY <2>1
  <1>26. ASSUME Deliver PROVE StudioInv'
    <2>1. /\ PageTypes' /\ RoomTypes' /\ PictureTypes' /\ OutputTypes'
          /\ LinkTypes' /\ HistoryTypes' /\ Counted'
      BY <1>26, DeliveredIsFinal DEF Deliver, Handle, PageTypes, Status, Scene,
         Source, PictureTypes, rooms, picture, output, history, RoomTypes, Room,
         HistoryTypes, OutputTypes, Counted, Note, Overlap
    <2>2. QED
      BY <2>1
  <1>27. ASSUME CutUnsent PROVE StudioInv'
    <2>1. PageTypes' /\ RoomTypes'
      BY <1>27 DEF CutUnsent, picture, PageTypes, Status, Scene, Source,
         PictureTypes, rooms, link, history, RoomTypes, Room, HistoryTypes
    <2>2. PictureTypes'
      BY <1>27 DEF CutUnsent, picture, PictureTypes, Source, Scene, OutputTypes,
         HistoryTypes, Counted, rooms, link, history
    <2>3. OutputTypes'
      BY <1>27 DEF CutUnsent, picture, OutputTypes, PageTypes, PictureTypes, Scene,
         Source, rooms, link, history
    <2>4. LinkTypes' /\ HistoryTypes' /\ Counted'
      BY <1>27 DEF CutUnsent, picture, LinkTypes, rooms, link, history,
         HistoryTypes, Note, Overlap, PictureTypes, PageTypes, Scene, Source,
         Counted, OutputTypes
    <2>5. QED
      BY <2>1, <2>2, <2>3, <2>4
  <1>28. QED
    BY <1>1, <1>2, <1>3, <1>4, <1>5, <1>6, <1>7, <1>8, <1>9, <1>10, <1>11, <1>12,
       <1>13, <1>14, <1>15, <1>16, <1>17, <1>18, <1>19, <1>20, <1>21, <1>22, <1>23,
       <1>24, <1>25, <1>26, <1>27 DEF Next

\* What has overlapped stays so.
LEMMA Grows ==
    ASSUME StudioInv, Next
    PROVE  overlaps \subseteq overlaps'
  <1> USE DEF StudioInv
  <1>1. ASSUME NEW c \in Camera, CameraMoves(c) PROVE overlaps \subseteq overlaps'
    BY <1>1 DEF CameraMoves, Note, UpdateCameras, rooms, picture, output, link
  <1>2. ASSUME NEW c \in Camera, DisconnectSource(c)
        PROVE  overlaps \subseteq overlaps'
    BY <1>2 DEF DisconnectSource, Note, rooms, output, link
  <1>3. ASSUME NEW j \in 1..MaxJoins, ConnectStudio(j)
        PROVE  overlaps \subseteq overlaps'
    BY <1>3 DEF ConnectStudio, output
  <1>4. ASSUME NEW j \in 1..MaxJoins, JoinSource(j)
        PROVE overlaps \subseteq overlaps'
    BY <1>4 DEF JoinSource, Note, UpdateCameras, output, link
  <1>5. ASSUME NEW j \in 1..MaxJoins, EnsureProgramBridge(j)
        PROVE  overlaps \subseteq overlaps'
    BY <1>5 DEF EnsureProgramBridge, picture, output, link, history
  <1>6. ASSUME NEW j \in 1..MaxJoins, JoinMonitor(j)
        PROVE  overlaps \subseteq overlaps'
    BY <1>6 DEF JoinMonitor, picture, output, link, history
  <1>7. ASSUME NEW j \in 1..MaxJoins, JoinFails(j)
        PROVE overlaps \subseteq overlaps'
    BY <1>7 DEF JoinFails, output
  <1>8. ASSUME LeaveStudio PROVE overlaps \subseteq overlaps'
    BY <1>8 DEF LeaveStudio, Note, output
  <1>9. ASSUME NEW r \in Room, LoseRoom(r) PROVE overlaps \subseteq overlaps'
    BY <1>9 DEF LoseRoom, Note, UpdateCameras, picture, output
  <1>10. ASSUME NEW c \in Source, SelectCameraSource(c)
         PROVE  overlaps \subseteq overlaps'
    BY <1>10 DEF SelectCameraSource, Edit, Note, rooms, output, link
  <1>11. ASSUME UpdateSceneLayers PROVE overlaps \subseteq overlaps'
    BY <1>11 DEF UpdateSceneLayers, Edit, Note, rooms, output, link
  <1>12. ASSUME CutSwitch PROVE overlaps \subseteq overlaps'
    BY <1>12 DEF CutSwitch, PressCut, Send, Previewed, Note, rooms, picture
  <1>13. ASSUME CutLocal PROVE overlaps \subseteq overlaps'
    BY <1>13 DEF CutLocal, PressCut, CutEnabled, Snapshot, Previewed, Note, rooms,
       link
  <1>14. ASSUME CutSwitched PROVE overlaps \subseteq overlaps'
    BY <1>14 DEF CutSwitched, Snapshot, rooms, link, history
  <1>15. ASSUME CutRejected PROVE overlaps \subseteq overlaps'
    BY <1>15 DEF CutRejected, rooms, picture, link, history
  <1>16. ASSUME CutDone PROVE overlaps \subseteq overlaps'
    BY <1>16 DEF CutDone, rooms, link, history
  <1>17. ASSUME StartBroadcast PROVE overlaps \subseteq overlaps'
    BY <1>17 DEF StartBroadcast, Note, rooms, picture, output, link
  <1>18. ASSUME StartMixed PROVE overlaps \subseteq overlaps'
    BY <1>18 DEF StartMixed, Send, rooms, history
  <1>19. ASSUME StartSent PROVE overlaps \subseteq overlaps'
    BY <1>19 DEF StartSent, Snapshot, rooms, picture, link, history
  <1>20. ASSUME StartDone PROVE overlaps \subseteq overlaps'
    BY <1>20 DEF StartDone, rooms, picture, output, link, history
  <1>21. ASSUME StartFails PROVE overlaps \subseteq overlaps'
    BY <1>21 DEF StartFails, Note, rooms, link
  <1>22. ASSUME StopBroadcast PROVE overlaps \subseteq overlaps'
    BY <1>22 DEF StopBroadcast, Send, rooms, picture, output, history
  <1>23. ASSUME StopSent PROVE overlaps \subseteq overlaps'
    BY <1>23 DEF StopSent, rooms, picture, output, link, history
  <1>24. ASSUME StopDone PROVE overlaps \subseteq overlaps'
    BY <1>24 DEF StopDone, rooms, picture, output, link, history
  <1>25. ASSUME StopFails PROVE overlaps \subseteq overlaps'
    BY <1>25 DEF StopFails, Note, rooms, picture, output, link
  <1>26. ASSUME Deliver PROVE overlaps \subseteq overlaps'
    BY <1>26 DEF Deliver, Handle, rooms, picture, output, history
  <1>27. ASSUME CutUnsent PROVE overlaps \subseteq overlaps'
    BY <1>27 DEF CutUnsent, picture, rooms, link, history
  <1>28. QED
    BY <1>1, <1>2, <1>3, <1>4, <1>5, <1>6, <1>7, <1>8, <1>9, <1>10, <1>11, <1>12,
       <1>13, <1>14, <1>15, <1>16, <1>17, <1>18, <1>19, <1>20, <1>21, <1>22, <1>23,
       <1>24, <1>25, <1>26, <1>27 DEF Next

\* A step of a page that neither joins nor leaves.
LEMMA SessionKept ==
    ASSUME Session, UNCHANGED rooms,
           job'.kind = "none" => job' = NoJob,
           job'.kind = "start" => status' = "ready",
           job'.kind = "stop" => status' = "live",
           status' = status \/ (status \in {"ready", "live"} /\ status' \in {"ready", "live"}),
           ~IsConnected' => switching' = <<>> /\ snapping' = 0 /\ wire' = <<>>
    PROVE  Session'
  <1>1. UNCHANGED <<join, connecting, pub, mon, open>> /\ Pending' = Pending
    BY DEF rooms, Pending
  <1>2. connecting' = (Pending' # {}) /\ (connecting' <=> (status' = "connecting"))
    BY <1>1 DEF Session
  <1>3. (status' = "connecting") = (Pending' # {})
    BY <1>1 DEF Session
  <1>4. ~IsConnected' => mon' = 0
    BY <1>1 DEF Session, IsConnected
  <1>5. status' \in {"idle", "error"} => pub' = 0
    BY <1>1 DEF Session
  <1>6. /\ \A i, j \in Pending' : i = j
        /\ \A j \in Pending' : join'[j] = "source" => pub' = 0
        /\ open' \subseteq {<<"source", pub'>>, <<"monitor", mon'>>}
    BY <1>1 DEF Session
  <1>7. QED
    BY <1>2, <1>3, <1>4, <1>5, <1>6 DEF Session

\* A Studio that is left only at rest.
LEMMA SessionStep ==
    ASSUME StudioInv, Session, Next, Unless({"leaveInFlight"})'
    PROVE  Session'
  <1> USE DEF Session
  <1>1. ASSUME NEW c \in Camera, CameraMoves(c) PROVE Session'
    <2>1. UNCHANGED rooms
      BY <1>1 DEF CameraMoves
    <2>2. /\ job'.kind = "none" => job' = NoJob
          /\ job'.kind = "start" => status' = "ready"
          /\ job'.kind = "stop" => status' = "live"
      BY <1>1 DEF CameraMoves, NoJob, StudioInv, PageTypes
    <2>5. status' = status \/ (status \in {"ready", "live"} /\ status' \in {"ready", "live"})
      BY <1>1 DEF CameraMoves
    <2>3. ~IsConnected' => switching' = <<>> /\ snapping' = 0 /\ wire' = <<>>
      BY <1>1 DEF CameraMoves, IsConnected, picture, output, link, StudioInv,
         PageTypes, OutputTypes
    <2>4. QED
      BY <2>1, <2>2, <2>3, <2>5, SessionKept
  <1>2. ASSUME NEW c \in Camera, DisconnectSource(c) PROVE Session'
    <2>1. UNCHANGED rooms
      BY <1>2 DEF DisconnectSource
    <2>2. /\ job'.kind = "none" => job' = NoJob
          /\ job'.kind = "start" => status' = "ready"
          /\ job'.kind = "stop" => status' = "live"
      BY <1>2 DEF DisconnectSource, NoJob, StudioInv, PageTypes
    <2>5. status' = status \/ (status \in {"ready", "live"} /\ status' \in {"ready", "live"})
      BY <1>2 DEF DisconnectSource
    <2>3. ~IsConnected' => switching' = <<>> /\ snapping' = 0 /\ wire' = <<>>
      BY <1>2 DEF DisconnectSource, IsConnected, output, link, StudioInv, PageTypes,
         OutputTypes
    <2>4. QED
      BY <2>1, <2>2, <2>3, <2>5, SessionKept
  <1>3. ASSUME NEW j \in 1..MaxJoins, ConnectStudio(j) PROVE Session'
    <2>1. /\ status \in {"idle", "error"} /\ ~connecting
          /\ connecting' /\ status' = "connecting"
          /\ join' = [join EXCEPT ![j] = "source"] /\ pub' = 0 /\ mon' = 0
          /\ open' = open \ {<<"source", pub>>, <<"monitor", mon>>}
          /\ UNCHANGED <<job, switching, snapping>> /\ (wire = <<>> => wire' = <<>>)
      BY <1>3, Disconnected DEF ConnectStudio, output
    <2>2. Pending' = {j} /\ open' = {} /\ ~IsConnected
      BY <2>1 DEF Pending, IsConnected, StudioInv, RoomTypes
    <2>3. QED
      BY <2>1, <2>2 DEF IsConnected
  <1>4. ASSUME NEW j \in 1..MaxJoins, JoinSource(j) PROVE Session'
    <2>1. /\ join[j] = "source" /\ join' = [join EXCEPT ![j] = "bridge"]
          /\ open' = open \cup {<<"source", j>>} /\ pub' = j
          /\ UNCHANGED <<status, job, connecting, mon, switching, snapping, wire>>
      BY <1>4 DEF JoinSource, output, link
    <2>2. Pending' = Pending /\ j \in Pending /\ join'[j] = "bridge"
      BY <2>1 DEF Pending, StudioInv, RoomTypes
    <2>3. ~IsConnected /\ pub = 0 /\ mon = 0 /\ status = "connecting"
      BY <2>1, <2>2 DEF IsConnected
    <2>4. open = {}
      BY <2>3, StudioAssumption DEF StudioInv, RoomTypes, Room
    <2>5. QED
      BY <2>1, <2>2, <2>3, <2>4 DEF IsConnected
  <1>5. ASSUME NEW j \in 1..MaxJoins, EnsureProgramBridge(j) PROVE Session'
    <2>1. /\ join[j] = "bridge" /\ join' = [join EXCEPT ![j] = "monitor"]
          /\ UNCHANGED <<status, job, connecting, pub, mon, open, switching, snapping,
                         wire>>
      BY <1>5 DEF EnsureProgramBridge, output, link
    <2>2. Pending' = Pending /\ j \in Pending /\ join'[j] = "monitor"
      BY <2>1 DEF Pending, StudioInv, RoomTypes
    <2>3. QED
      BY <2>1, <2>2 DEF IsConnected
  <1>6. ASSUME NEW j \in 1..MaxJoins, JoinMonitor(j) PROVE Session'
    <2>1. /\ join[j] = "monitor" /\ join' = [join EXCEPT ![j] = "none"]
          /\ connecting' = FALSE
          /\ open' = open \cup {<<"monitor", j>>} /\ mon' = j /\ status' = "ready"
          /\ UNCHANGED <<job, pub, switching, snapping, wire>>
      BY <1>6 DEF JoinMonitor, output, link
    <2>2. Pending' = {} /\ j \in Pending
      BY <2>1 DEF Pending, StudioInv, RoomTypes
    <2>3. ~IsConnected /\ mon = 0 /\ status = "connecting"
      BY <2>1, <2>2 DEF IsConnected
    <2>4. open \subseteq {<<"source", pub>>}
      BY <2>3, StudioAssumption DEF StudioInv, RoomTypes, Room
    <2>5. connecting' = (Pending' # {})
      BY <2>1, <2>2
    <2>6. QED
      BY <2>1, <2>2, <2>3, <2>4, <2>5 DEF IsConnected
  <1>7. ASSUME NEW j \in 1..MaxJoins, JoinFails(j) PROVE Session'
    <2>1. /\ join[j] # "none" /\ join' = [join EXCEPT ![j] = "none"]
          /\ connecting' = FALSE
          /\ open' \subseteq open \ {<<"source", pub>>, <<"monitor", mon>>}
          /\ pub' = 0 /\ mon' = 0 /\ status' = "error" /\ (wire = <<>> => wire' = <<>>)
          /\ UNCHANGED <<job, switching, snapping>>
      BY <1>7, Disconnected DEF JoinFails, output
    <2>2. Pending' = {} /\ j \in Pending
      BY <2>1 DEF Pending, StudioInv, RoomTypes
    <2>3. ~IsConnected /\ status = "connecting" /\ ~IsConnected'
      BY <2>1, <2>2 DEF IsConnected
    <2>4. connecting' = (Pending' # {})
      BY <2>1, <2>2
    <2>5. QED
      BY <2>1, <2>2, <2>3, <2>4
  <1>8. ASSUME LeaveStudio PROVE Session'
    <2>1. /\ IsConnected /\ Quiet /\ connecting' = FALSE /\ UNCHANGED join
          /\ open' \subseteq open \ {<<"source", pub>>, <<"monitor", mon>>}
          /\ pub' = 0 /\ mon' = 0 /\ status' = "idle" /\ (wire = <<>> => wire' = <<>>)
          /\ UNCHANGED <<job, switching, snapping>>
      BY <1>8, Disconnected DEF LeaveStudio, output, Note, If, Unless
    <2>2. Pending' = {} /\ Pending = {}
      BY <2>1 DEF Pending, Quiet
    <2>3. job' = NoJob /\ switching' = <<>> /\ snapping' = 0 /\ wire' = <<>>
      BY <2>1 DEF Quiet
    <2>4. connecting' = (Pending' # {}) /\ NoJob.kind = "none"
      BY <2>1, <2>2 DEF NoJob
    <2>5. QED
      BY <2>1, <2>2, <2>3, <2>4
  <1>9. ASSUME NEW r \in Room, LoseRoom(r) PROVE Session'
    <2>1. /\ UNCHANGED <<status, job, join, connecting, pub, mon, switching, snapping>>
          /\ open' \subseteq open /\ (wire = <<>> => wire' = <<>>)
      BY <1>9, LostTypes DEF LoseRoom, output, StudioInv, LinkTypes
    <2>2. QED
      BY <2>1 DEF Pending, IsConnected
  <1>10. ASSUME NEW c \in Source, SelectCameraSource(c) PROVE Session'
    <2>1. UNCHANGED rooms
      BY <1>10 DEF SelectCameraSource, Edit
    <2>2. /\ job'.kind = "none" => job' = NoJob
          /\ job'.kind = "start" => status' = "ready"
          /\ job'.kind = "stop" => status' = "live"
      BY <1>10 DEF SelectCameraSource, Edit, NoJob, StudioInv, PageTypes
    <2>5. status' = status \/ (status \in {"ready", "live"} /\ status' \in {"ready", "live"})
      BY <1>10 DEF SelectCameraSource, Edit
    <2>3. ~IsConnected' => switching' = <<>> /\ snapping' = 0 /\ wire' = <<>>
      BY <1>10 DEF SelectCameraSource, Edit, IsConnected, output, link, StudioInv,
         PageTypes, OutputTypes
    <2>4. QED
      BY <2>1, <2>2, <2>3, <2>5, SessionKept
  <1>11. ASSUME UpdateSceneLayers PROVE Session'
    <2>1. UNCHANGED rooms
      BY <1>11 DEF UpdateSceneLayers, Edit
    <2>2. /\ job'.kind = "none" => job' = NoJob
          /\ job'.kind = "start" => status' = "ready"
          /\ job'.kind = "stop" => status' = "live"
      BY <1>11 DEF UpdateSceneLayers, Edit, NoJob, StudioInv, PageTypes
    <2>5. status' = status \/ (status \in {"ready", "live"} /\ status' \in {"ready", "live"})
      BY <1>11 DEF UpdateSceneLayers, Edit
    <2>3. ~IsConnected' => switching' = <<>> /\ snapping' = 0 /\ wire' = <<>>
      BY <1>11 DEF UpdateSceneLayers, Edit, IsConnected, output, link, StudioInv,
         PageTypes, OutputTypes
    <2>4. QED
      BY <2>1, <2>2, <2>3, <2>5, SessionKept
  <1>12. ASSUME CutSwitch PROVE Session'
    <2>1. UNCHANGED rooms
      BY <1>12 DEF CutSwitch, PressCut, Send, Previewed
    <2>2. /\ job'.kind = "none" => job' = NoJob
          /\ job'.kind = "start" => status' = "ready"
          /\ job'.kind = "stop" => status' = "live"
      BY <1>12 DEF CutSwitch, PressCut, Send, Previewed, NoJob, StudioInv, PageTypes
    <2>5. status' = status \/ (status \in {"ready", "live"} /\ status' \in {"ready", "live"})
      BY <1>12 DEF CutSwitch, PressCut, Send, Previewed
    <2>3. ~IsConnected' => switching' = <<>> /\ snapping' = 0 /\ wire' = <<>>
      BY <1>12 DEF CutSwitch, PressCut, Send, Previewed, IsConnected, picture,
         StudioInv, PageTypes, OutputTypes
    <2>4. QED
      BY <2>1, <2>2, <2>3, <2>5, SessionKept
  <1>13. ASSUME CutLocal PROVE Session'
    <2>1. UNCHANGED rooms
      BY <1>13 DEF CutLocal, PressCut, CutEnabled, Snapshot, Previewed
    <2>2. /\ job'.kind = "none" => job' = NoJob
          /\ job'.kind = "start" => status' = "ready"
          /\ job'.kind = "stop" => status' = "live"
      BY <1>13 DEF CutLocal, PressCut, CutEnabled, Snapshot, Previewed, NoJob,
         StudioInv, PageTypes
    <2>5. status' = status \/ (status \in {"ready", "live"} /\ status' \in {"ready", "live"})
      BY <1>13 DEF CutLocal, PressCut, CutEnabled, Snapshot, Previewed
    <2>3. ~IsConnected' => switching' = <<>> /\ snapping' = 0 /\ wire' = <<>>
      BY <1>13 DEF CutLocal, PressCut, CutEnabled, Snapshot, Previewed, IsConnected,
         link, StudioInv, PageTypes, OutputTypes
    <2>4. QED
      BY <2>1, <2>2, <2>3, <2>5, SessionKept
  <1>14. ASSUME CutSwitched PROVE Session'
    <2>1. UNCHANGED rooms
      BY <1>14 DEF CutSwitched, Snapshot
    <2>2. /\ job'.kind = "none" => job' = NoJob
          /\ job'.kind = "start" => status' = "ready"
          /\ job'.kind = "stop" => status' = "live"
      BY <1>14 DEF CutSwitched, Snapshot, NoJob, StudioInv, PageTypes
    <2>5. status' = status \/ (status \in {"ready", "live"} /\ status' \in {"ready", "live"})
      BY <1>14 DEF CutSwitched, Snapshot
    <2>3. ~IsConnected' => switching' = <<>> /\ snapping' = 0 /\ wire' = <<>>
      BY <1>14 DEF CutSwitched, Snapshot, IsConnected, link, StudioInv, PageTypes,
         OutputTypes
    <2>4. QED
      BY <2>1, <2>2, <2>3, <2>5, SessionKept
  <1>15. ASSUME CutRejected PROVE Session'
    <2>1. UNCHANGED rooms
      BY <1>15 DEF CutRejected
    <2>2. /\ job'.kind = "none" => job' = NoJob
          /\ job'.kind = "start" => status' = "ready"
          /\ job'.kind = "stop" => status' = "live"
      BY <1>15 DEF CutRejected, NoJob, StudioInv, PageTypes
    <2>5. status' = status \/ (status \in {"ready", "live"} /\ status' \in {"ready", "live"})
      BY <1>15 DEF CutRejected
    <2>3. ~IsConnected' => switching' = <<>> /\ snapping' = 0 /\ wire' = <<>>
      BY <1>15 DEF CutRejected, IsConnected, picture, link, StudioInv, PageTypes,
         OutputTypes
    <2>4. QED
      BY <2>1, <2>2, <2>3, <2>5, SessionKept
  <1>16. ASSUME CutDone PROVE Session'
    <2>1. UNCHANGED rooms
      BY <1>16 DEF CutDone
    <2>2. /\ job'.kind = "none" => job' = NoJob
          /\ job'.kind = "start" => status' = "ready"
          /\ job'.kind = "stop" => status' = "live"
      BY <1>16 DEF CutDone, NoJob, StudioInv, PageTypes
    <2>5. status' = status \/ (status \in {"ready", "live"} /\ status' \in {"ready", "live"})
      BY <1>16 DEF CutDone
    <2>3. ~IsConnected' => switching' = <<>> /\ snapping' = 0 /\ wire' = <<>>
      BY <1>16 DEF CutDone, IsConnected, link, StudioInv, PageTypes, OutputTypes
    <2>4. QED
      BY <2>1, <2>2, <2>3, <2>5, SessionKept
  <1>17. ASSUME StartBroadcast PROVE Session'
    <2>1. UNCHANGED rooms
      BY <1>17 DEF StartBroadcast
    <2>2. /\ job'.kind = "none" => job' = NoJob
          /\ job'.kind = "start" => status' = "ready"
          /\ job'.kind = "stop" => status' = "live"
      BY <1>17 DEF StartBroadcast, NoJob, StudioInv, PageTypes
    <2>5. status' = status \/ (status \in {"ready", "live"} /\ status' \in {"ready", "live"})
      BY <1>17 DEF StartBroadcast
    <2>3. ~IsConnected' => switching' = <<>> /\ snapping' = 0 /\ wire' = <<>>
      BY <1>17 DEF StartBroadcast, IsConnected, picture, output, link, StudioInv,
         PageTypes, OutputTypes
    <2>4. QED
      BY <2>1, <2>2, <2>3, <2>5, SessionKept
  <1>18. ASSUME StartMixed PROVE Session'
    <2>1. UNCHANGED rooms
      BY <1>18 DEF StartMixed, Send
    <2>2. /\ job'.kind = "none" => job' = NoJob
          /\ job'.kind = "start" => status' = "ready"
          /\ job'.kind = "stop" => status' = "live"
      BY <1>18 DEF StartMixed, Send, NoJob, StudioInv, PageTypes
    <2>5. status' = status \/ (status \in {"ready", "live"} /\ status' \in {"ready", "live"})
      BY <1>18 DEF StartMixed, Send
    <2>3. ~IsConnected' => switching' = <<>> /\ snapping' = 0 /\ wire' = <<>>
      BY <1>18 DEF StartMixed, Send, IsConnected, StudioInv, PageTypes, OutputTypes
    <2>4. QED
      BY <2>1, <2>2, <2>3, <2>5, SessionKept
  <1>19. ASSUME StartSent PROVE Session'
    <2>1. UNCHANGED rooms
      BY <1>19 DEF StartSent, Snapshot
    <2>2. /\ job'.kind = "none" => job' = NoJob
          /\ job'.kind = "start" => status' = "ready"
          /\ job'.kind = "stop" => status' = "live"
      BY <1>19 DEF StartSent, Snapshot, NoJob, StudioInv, PageTypes
    <2>5. status' = status \/ (status \in {"ready", "live"} /\ status' \in {"ready", "live"})
      BY <1>19 DEF StartSent, Snapshot
    <2>3. ~IsConnected' => switching' = <<>> /\ snapping' = 0 /\ wire' = <<>>
      BY <1>19 DEF StartSent, Snapshot, IsConnected, picture, link, StudioInv,
         PageTypes, OutputTypes
    <2>4. QED
      BY <2>1, <2>2, <2>3, <2>5, SessionKept
  <1>20. ASSUME StartDone PROVE Session'
    <2>1. UNCHANGED rooms
      BY <1>20 DEF StartDone
    <2>2. /\ job'.kind = "none" => job' = NoJob
          /\ job'.kind = "start" => status' = "ready"
          /\ job'.kind = "stop" => status' = "live"
      BY <1>20 DEF StartDone, NoJob, StudioInv, PageTypes
    <2>5. status' = status \/ (status \in {"ready", "live"} /\ status' \in {"ready", "live"})
      BY <1>20 DEF StartDone
    <2>3. ~IsConnected' => switching' = <<>> /\ snapping' = 0 /\ wire' = <<>>
      BY <1>20 DEF StartDone, IsConnected, picture, output, link, StudioInv,
         PageTypes, OutputTypes
    <2>4. QED
      BY <2>1, <2>2, <2>3, <2>5, SessionKept
  <1>21. ASSUME StartFails PROVE Session'
    <2>1. UNCHANGED rooms
      BY <1>21 DEF StartFails
    <2>2. /\ job'.kind = "none" => job' = NoJob
          /\ job'.kind = "start" => status' = "ready"
          /\ job'.kind = "stop" => status' = "live"
      BY <1>21 DEF StartFails, NoJob, StudioInv, PageTypes
    <2>5. status' = status \/ (status \in {"ready", "live"} /\ status' \in {"ready", "live"})
      BY <1>21 DEF StartFails
    <2>3. ~IsConnected' => switching' = <<>> /\ snapping' = 0 /\ wire' = <<>>
      BY <1>21 DEF StartFails, IsConnected, link, StudioInv, PageTypes, OutputTypes
    <2>4. QED
      BY <2>1, <2>2, <2>3, <2>5, SessionKept
  <1>22. ASSUME StopBroadcast PROVE Session'
    <2>1. UNCHANGED rooms
      BY <1>22 DEF StopBroadcast, Send
    <2>2. /\ job'.kind = "none" => job' = NoJob
          /\ job'.kind = "start" => status' = "ready"
          /\ job'.kind = "stop" => status' = "live"
      BY <1>22 DEF StopBroadcast, Send, NoJob, StudioInv, PageTypes
    <2>5. status' = status \/ (status \in {"ready", "live"} /\ status' \in {"ready", "live"})
      BY <1>22 DEF StopBroadcast, Send
    <2>3. ~IsConnected' => switching' = <<>> /\ snapping' = 0 /\ wire' = <<>>
      BY <1>22 DEF StopBroadcast, Send, IsConnected, picture, output, StudioInv,
         PageTypes, OutputTypes
    <2>4. QED
      BY <2>1, <2>2, <2>3, <2>5, SessionKept
  <1>23. ASSUME StopSent PROVE Session'
    <2>1. UNCHANGED rooms
      BY <1>23 DEF StopSent
    <2>2. /\ job'.kind = "none" => job' = NoJob
          /\ job'.kind = "start" => status' = "ready"
          /\ job'.kind = "stop" => status' = "live"
      BY <1>23 DEF StopSent, NoJob, StudioInv, PageTypes
    <2>5. status' = status \/ (status \in {"ready", "live"} /\ status' \in {"ready", "live"})
      BY <1>23 DEF StopSent
    <2>3. ~IsConnected' => switching' = <<>> /\ snapping' = 0 /\ wire' = <<>>
      BY <1>23 DEF StopSent, IsConnected, picture, output, link, StudioInv,
         PageTypes, OutputTypes
    <2>4. QED
      BY <2>1, <2>2, <2>3, <2>5, SessionKept
  <1>24. ASSUME StopDone PROVE Session'
    <2>1. UNCHANGED rooms
      BY <1>24 DEF StopDone
    <2>2. /\ job'.kind = "none" => job' = NoJob
          /\ job'.kind = "start" => status' = "ready"
          /\ job'.kind = "stop" => status' = "live"
      BY <1>24 DEF StopDone, NoJob, StudioInv, PageTypes
    <2>5. status' = status \/ (status \in {"ready", "live"} /\ status' \in {"ready", "live"})
      BY <1>24 DEF StopDone
    <2>3. ~IsConnected' => switching' = <<>> /\ snapping' = 0 /\ wire' = <<>>
      BY <1>24 DEF StopDone, IsConnected, picture, output, link, StudioInv,
         PageTypes, OutputTypes
    <2>4. QED
      BY <2>1, <2>2, <2>3, <2>5, SessionKept
  <1>25. ASSUME StopFails PROVE Session'
    <2>1. UNCHANGED rooms
      BY <1>25 DEF StopFails
    <2>2. /\ job'.kind = "none" => job' = NoJob
          /\ job'.kind = "start" => status' = "ready"
          /\ job'.kind = "stop" => status' = "live"
      BY <1>25 DEF StopFails, NoJob, StudioInv, PageTypes
    <2>5. status' = status \/ (status \in {"ready", "live"} /\ status' \in {"ready", "live"})
      BY <1>25 DEF StopFails
    <2>3. ~IsConnected' => switching' = <<>> /\ snapping' = 0 /\ wire' = <<>>
      BY <1>25 DEF StopFails, IsConnected, picture, output, link, StudioInv,
         PageTypes, OutputTypes
    <2>4. QED
      BY <2>1, <2>2, <2>3, <2>5, SessionKept
  <1>26. ASSUME Deliver PROVE Session'
    <2>1. UNCHANGED rooms
      BY <1>26 DEF Deliver, Handle
    <2>2. /\ job'.kind = "none" => job' = NoJob
          /\ job'.kind = "start" => status' = "ready"
          /\ job'.kind = "stop" => status' = "live"
      BY <1>26 DEF Deliver, Handle, NoJob, StudioInv, PageTypes
    <2>5. status' = status \/ (status \in {"ready", "live"} /\ status' \in {"ready", "live"})
      BY <1>26 DEF Deliver, Handle
    <2>3. ~IsConnected' => switching' = <<>> /\ snapping' = 0 /\ wire' = <<>>
      BY <1>26 DEF Deliver, Handle, IsConnected, picture, output, StudioInv,
         PageTypes, OutputTypes
    <2>4. QED
      BY <2>1, <2>2, <2>3, <2>5, SessionKept
  <1>27. ASSUME CutUnsent PROVE Session'
    <2>1. UNCHANGED rooms
      BY <1>27 DEF CutUnsent, picture
    <2>2. /\ job'.kind = "none" => job' = NoJob
          /\ job'.kind = "start" => status' = "ready"
          /\ job'.kind = "stop" => status' = "live"
      BY <1>27 DEF CutUnsent, picture, NoJob, StudioInv, PageTypes
    <2>5. status' = status \/ (status \in {"ready", "live"} /\ status' \in {"ready", "live"})
      BY <1>27 DEF CutUnsent, picture
    <2>3. ~IsConnected' => switching' = <<>> /\ snapping' = 0 /\ wire' = <<>>
      BY <1>27 DEF CutUnsent, picture, IsConnected, link, StudioInv, PageTypes,
         OutputTypes
    <2>4. QED
      BY <2>1, <2>2, <2>3, <2>5, SessionKept
  <1>28. QED
    BY <1>1, <1>2, <1>3, <1>4, <1>5, <1>6, <1>7, <1>8, <1>9, <1>10, <1>11, <1>12,
       <1>13, <1>14, <1>15, <1>16, <1>17, <1>18, <1>19, <1>20, <1>21, <1>22, <1>23,
       <1>24, <1>25, <1>26, <1>27 DEF Next

\* A Studio that loses no room has the rooms it is connected to.
LEMMA UpStep ==
    ASSUME StudioInv, Session, Up, Next, Unless({"leaveInFlight", "roomLost"})'
    PROVE  Up'
  <1> USE DEF Up
  <1>1. ASSUME NEW c \in Camera, CameraMoves(c) PROVE Up'
    <2>1. UNCHANGED rooms /\ (IsConnected' => IsConnected)
      BY <1>1 DEF CameraMoves, IsConnected, Session
    <2>2. QED
      BY <2>1 DEF Pending, rooms, SourceUp, MonitorUp
  <1>2. ASSUME NEW c \in Camera, DisconnectSource(c) PROVE Up'
    <2>1. UNCHANGED rooms /\ (IsConnected' => IsConnected)
      BY <1>2 DEF DisconnectSource, IsConnected, Session
    <2>2. QED
      BY <2>1 DEF Pending, rooms, SourceUp, MonitorUp
  <1>3. ASSUME NEW j \in 1..MaxJoins, ConnectStudio(j) PROVE Up'
    <2>1. ~connecting /\ status' = "connecting" /\ join' = [join EXCEPT ![j] = "source"]
      BY <1>3 DEF ConnectStudio
    <2>2. ~IsConnected' /\ \A k \in Pending' : join'[k] = "source"
      BY <2>1 DEF Pending, IsConnected, StudioInv, RoomTypes, Session
    <2>3. QED
      BY <2>2
  <1>4. ASSUME NEW j \in 1..MaxJoins, JoinSource(j) PROVE Up'
    <2>1. /\ join[j] = "source" /\ join' = [join EXCEPT ![j] = "bridge"]
          /\ open' = open \cup {<<"source", j>>} /\ pub' = j /\ UNCHANGED status
      BY <1>4 DEF JoinSource
    <2>2. ~IsConnected'
      BY <2>1 DEF Session, Pending, IsConnected
    <2>3. QED
      BY <2>1, <2>2 DEF SourceUp
  <1>5. ASSUME NEW j \in 1..MaxJoins, EnsureProgramBridge(j) PROVE Up'
    <2>1. /\ join[j] = "bridge" /\ join' = [join EXCEPT ![j] = "monitor"]
          /\ UNCHANGED <<status, pub, mon, open>>
      BY <1>5 DEF EnsureProgramBridge
    <2>2. j \in Pending /\ SourceUp
      BY <2>1 DEF Pending
    <2>3. ~IsConnected'
      BY <2>1, <2>2 DEF Session, IsConnected
    <2>4. QED
      BY <2>1, <2>2, <2>3 DEF SourceUp
  <1>6. ASSUME NEW j \in 1..MaxJoins, JoinMonitor(j) PROVE Up'
    <2>1. /\ join[j] = "monitor" /\ join' = [join EXCEPT ![j] = "none"]
          /\ open' = open \cup {<<"monitor", j>>} /\ mon' = j /\ pub' = pub
      BY <1>6 DEF JoinMonitor
    <2>2. j \in Pending /\ SourceUp
      BY <2>1 DEF Pending
    <2>3. Pending' = {}
      BY <2>1, <2>2 DEF Session, Pending, StudioInv, RoomTypes
    <2>4. QED
      BY <2>1, <2>2, <2>3 DEF SourceUp, MonitorUp
  <1>7. ASSUME NEW j \in 1..MaxJoins, JoinFails(j) PROVE Up'
    <2>1. join[j] # "none" /\ join' = [join EXCEPT ![j] = "none"] /\ status' = "error"
      BY <1>7 DEF JoinFails
    <2>2. Pending' = {} /\ ~IsConnected'
      BY <2>1 DEF Session, Pending, StudioInv, RoomTypes, IsConnected
    <2>3. QED
      BY <2>2
  <1>8. ASSUME LeaveStudio PROVE Up'
    <2>1. IsConnected /\ UNCHANGED join /\ status' = "idle"
      BY <1>8 DEF LeaveStudio
    <2>2. Pending' = {} /\ ~IsConnected'
      BY <2>1 DEF Session, Pending, IsConnected
    <2>3. QED
      BY <2>2
  <1>9. ASSUME NEW r \in Room, LoseRoom(r) PROVE Up'
    BY <1>9 DEF LoseRoom, UpdateCameras, Note, Unless
  <1>10. ASSUME NEW c \in Source, SelectCameraSource(c) PROVE Up'
    <2>1. UNCHANGED rooms /\ (IsConnected' => IsConnected)
      BY <1>10 DEF SelectCameraSource, Edit, IsConnected, Session
    <2>2. QED
      BY <2>1 DEF Pending, rooms, SourceUp, MonitorUp
  <1>11. ASSUME UpdateSceneLayers PROVE Up'
    <2>1. UNCHANGED rooms /\ (IsConnected' => IsConnected)
      BY <1>11 DEF UpdateSceneLayers, Edit, IsConnected, Session
    <2>2. QED
      BY <2>1 DEF Pending, rooms, SourceUp, MonitorUp
  <1>12. ASSUME CutSwitch PROVE Up'
    <2>1. UNCHANGED rooms /\ (IsConnected' => IsConnected)
      BY <1>12 DEF CutSwitch, PressCut, Send, Previewed, IsConnected, Session
    <2>2. QED
      BY <2>1 DEF Pending, rooms, SourceUp, MonitorUp
  <1>13. ASSUME CutLocal PROVE Up'
    <2>1. UNCHANGED rooms /\ (IsConnected' => IsConnected)
      BY <1>13 DEF CutLocal, PressCut, CutEnabled, Snapshot, Previewed, IsConnected,
         Session
    <2>2. QED
      BY <2>1 DEF Pending, rooms, SourceUp, MonitorUp
  <1>14. ASSUME CutSwitched PROVE Up'
    <2>1. UNCHANGED rooms /\ (IsConnected' => IsConnected)
      BY <1>14 DEF CutSwitched, Snapshot, IsConnected, Session
    <2>2. QED
      BY <2>1 DEF Pending, rooms, SourceUp, MonitorUp
  <1>15. ASSUME CutRejected PROVE Up'
    <2>1. UNCHANGED rooms /\ (IsConnected' => IsConnected)
      BY <1>15 DEF CutRejected, IsConnected, Session
    <2>2. QED
      BY <2>1 DEF Pending, rooms, SourceUp, MonitorUp
  <1>16. ASSUME CutDone PROVE Up'
    <2>1. UNCHANGED rooms /\ (IsConnected' => IsConnected)
      BY <1>16 DEF CutDone, IsConnected, Session
    <2>2. QED
      BY <2>1 DEF Pending, rooms, SourceUp, MonitorUp
  <1>17. ASSUME StartBroadcast PROVE Up'
    <2>1. UNCHANGED rooms /\ (IsConnected' => IsConnected)
      BY <1>17 DEF StartBroadcast, IsConnected, Session
    <2>2. QED
      BY <2>1 DEF Pending, rooms, SourceUp, MonitorUp
  <1>18. ASSUME StartMixed PROVE Up'
    <2>1. UNCHANGED rooms /\ (IsConnected' => IsConnected)
      BY <1>18 DEF StartMixed, Send, IsConnected, Session
    <2>2. QED
      BY <2>1 DEF Pending, rooms, SourceUp, MonitorUp
  <1>19. ASSUME StartSent PROVE Up'
    <2>1. UNCHANGED rooms /\ (IsConnected' => IsConnected)
      BY <1>19 DEF StartSent, Snapshot, IsConnected, Session
    <2>2. QED
      BY <2>1 DEF Pending, rooms, SourceUp, MonitorUp
  <1>20. ASSUME StartDone PROVE Up'
    <2>1. UNCHANGED rooms /\ (IsConnected' => IsConnected)
      BY <1>20 DEF StartDone, IsConnected, Session
    <2>2. QED
      BY <2>1 DEF Pending, rooms, SourceUp, MonitorUp
  <1>21. ASSUME StartFails PROVE Up'
    <2>1. UNCHANGED rooms /\ (IsConnected' => IsConnected)
      BY <1>21 DEF StartFails, IsConnected, Session
    <2>2. QED
      BY <2>1 DEF Pending, rooms, SourceUp, MonitorUp
  <1>22. ASSUME StopBroadcast PROVE Up'
    <2>1. UNCHANGED rooms /\ (IsConnected' => IsConnected)
      BY <1>22 DEF StopBroadcast, Send, IsConnected, Session
    <2>2. QED
      BY <2>1 DEF Pending, rooms, SourceUp, MonitorUp
  <1>23. ASSUME StopSent PROVE Up'
    <2>1. UNCHANGED rooms /\ (IsConnected' => IsConnected)
      BY <1>23 DEF StopSent, IsConnected, Session
    <2>2. QED
      BY <2>1 DEF Pending, rooms, SourceUp, MonitorUp
  <1>24. ASSUME StopDone PROVE Up'
    <2>1. UNCHANGED rooms /\ (IsConnected' => IsConnected)
      BY <1>24 DEF StopDone, IsConnected, Session
    <2>2. QED
      BY <2>1 DEF Pending, rooms, SourceUp, MonitorUp
  <1>25. ASSUME StopFails PROVE Up'
    <2>1. UNCHANGED rooms /\ (IsConnected' => IsConnected)
      BY <1>25 DEF StopFails, IsConnected, Session
    <2>2. QED
      BY <2>1 DEF Pending, rooms, SourceUp, MonitorUp
  <1>26. ASSUME Deliver PROVE Up'
    <2>1. UNCHANGED rooms /\ (IsConnected' => IsConnected)
      BY <1>26 DEF Deliver, Handle, IsConnected, Session
    <2>2. QED
      BY <2>1 DEF Pending, rooms, SourceUp, MonitorUp
  <1>27. ASSUME CutUnsent PROVE Up'
    <2>1. UNCHANGED rooms /\ (IsConnected' => IsConnected)
      BY <1>27 DEF CutUnsent, picture, IsConnected, Session
    <2>2. QED
      BY <2>1 DEF Pending, rooms, SourceUp, MonitorUp
  <1>28. QED
    BY <1>1, <1>2, <1>3, <1>4, <1>5, <1>6, <1>7, <1>8, <1>9, <1>10, <1>11, <1>12,
       <1>13, <1>14, <1>15, <1>16, <1>17, <1>18, <1>19, <1>20, <1>21, <1>22, <1>23,
       <1>24, <1>25, <1>26, <1>27 DEF Next

\* A scene that is edited only at rest.
LEMMA EditsStep ==
    ASSUME StudioInv, Edits, Next, Unless({"editInFlight"})'
    PROVE  Edits'
  <1> USE DEF Edits
  <1>1. ASSUME NEW c \in Camera, CameraMoves(c) PROVE Edits'
    <2>1. /\ UNCHANGED <<scene, dirty, program, switching, snapping>>
          /\ job' = job \/ job'.kind # "start" \/ (job'.kind = job.kind /\ job'.scene = job.scene)
      BY <1>1 DEF CameraMoves, UpdateCameras, picture, output, StudioInv, PageTypes
    <2>2. QED
      BY <2>1
  <1>2. ASSUME NEW c \in Camera, DisconnectSource(c) PROVE Edits'
    <2>1. /\ UNCHANGED <<scene, dirty, program, switching, snapping>>
          /\ job' = job \/ job'.kind # "start" \/ (job'.kind = job.kind /\ job'.scene = job.scene)
      BY <1>2 DEF DisconnectSource, output, StudioInv, PageTypes
    <2>2. QED
      BY <2>1
  <1>3. ASSUME NEW j \in 1..MaxJoins, ConnectStudio(j) PROVE Edits'
    <2>1. /\ UNCHANGED <<scene, dirty, program, switching, snapping>>
          /\ job' = job \/ job'.kind # "start" \/ (job'.kind = job.kind /\ job'.scene = job.scene)
      BY <1>3 DEF ConnectStudio, DisconnectAll, output, StudioInv, PageTypes
    <2>2. QED
      BY <2>1
  <1>4. ASSUME NEW j \in 1..MaxJoins, JoinSource(j) PROVE Edits'
    <2>1. /\ UNCHANGED <<scene, dirty, program, switching, snapping>>
          /\ job' = job \/ job'.kind # "start" \/ (job'.kind = job.kind /\ job'.scene = job.scene)
      BY <1>4 DEF JoinSource, UpdateCameras, output, StudioInv, PageTypes
    <2>2. QED
      BY <2>1
  <1>5. ASSUME NEW j \in 1..MaxJoins, EnsureProgramBridge(j) PROVE Edits'
    <2>1. /\ UNCHANGED <<scene, dirty, program, switching, snapping>>
          /\ job' = job \/ job'.kind # "start" \/ (job'.kind = job.kind /\ job'.scene = job.scene)
      BY <1>5 DEF EnsureProgramBridge, picture, output, StudioInv, PageTypes
    <2>2. QED
      BY <2>1
  <1>6. ASSUME NEW j \in 1..MaxJoins, JoinMonitor(j) PROVE Edits'
    <2>1. /\ UNCHANGED <<scene, dirty, program, switching, snapping>>
          /\ job' = job \/ job'.kind # "start" \/ (job'.kind = job.kind /\ job'.scene = job.scene)
      BY <1>6 DEF JoinMonitor, picture, output, StudioInv, PageTypes
    <2>2. QED
      BY <2>1
  <1>7. ASSUME NEW j \in 1..MaxJoins, JoinFails(j) PROVE Edits'
    <2>1. /\ UNCHANGED <<scene, dirty, program, switching, snapping>>
          /\ job' = job \/ job'.kind # "start" \/ (job'.kind = job.kind /\ job'.scene = job.scene)
      BY <1>7 DEF JoinFails, DisconnectAll, output, StudioInv, PageTypes
    <2>2. QED
      BY <2>1
  <1>8. ASSUME LeaveStudio PROVE Edits'
    <2>1. /\ UNCHANGED <<scene, dirty, program, switching, snapping>>
          /\ job' = job \/ job'.kind # "start" \/ (job'.kind = job.kind /\ job'.scene = job.scene)
      BY <1>8 DEF LeaveStudio, DisconnectAll, output, StudioInv, PageTypes
    <2>2. QED
      BY <2>1
  <1>9. ASSUME NEW r \in Room, LoseRoom(r) PROVE Edits'
    <2>1. /\ UNCHANGED <<scene, dirty, program, switching, snapping>>
          /\ job' = job \/ job'.kind # "start" \/ (job'.kind = job.kind /\ job'.scene = job.scene)
      BY <1>9 DEF LoseRoom, UpdateCameras, picture, output, StudioInv, PageTypes
    <2>2. QED
      BY <2>1
  <1>10. ASSUME NEW c \in Source, SelectCameraSource(c) PROVE Edits'
    BY <1>10 DEF SelectCameraSource, Edit, Edits, Unless, Note, If, InFlight, Press,
       StudioInv, PageTypes, PictureTypes, OutputTypes, HistoryTypes, Scene, rooms,
       output, link
  <1>11. ASSUME UpdateSceneLayers PROVE Edits'
    BY <1>11 DEF UpdateSceneLayers, Edit, Edits, Unless, Note, If, InFlight, Press,
       StudioInv, PageTypes, PictureTypes, OutputTypes, HistoryTypes, Scene, rooms,
       output, link
  <1>12. ASSUME CutSwitch PROVE Edits'
    <2>1. /\ switching' = Append(switching, Previewed) /\ Previewed \in Scene
          /\ Previewed.rev = scene.rev
          /\ UNCHANGED <<job, scene, dirty, program, snapping>>
      BY <1>12 DEF CutSwitch, Previewed, picture, StudioInv, PictureTypes, Scene
    <2>2. \A n \in 1..Len(switching') : switching'[n].rev = scene.rev
      BY <2>1, LastCut DEF StudioInv
    <2>3. QED
      BY <2>1, <2>2
  <1>13. ASSUME CutLocal PROVE Edits'
    BY <1>13 DEF CutLocal, PressCut, CutEnabled, Snapshot, Previewed, Edits, Unless,
       Note, If, Press, StudioInv, PageTypes, PictureTypes, OutputTypes,
       HistoryTypes, Scene, rooms, link
  <1>14. ASSUME CutSwitched PROVE Edits'
    <2>1. /\ switching # <<>> /\ switching' = Tail(switching)
          /\ program' = Head(switching)
          /\ UNCHANGED <<job, scene, dirty>>
      BY <1>14 DEF CutSwitched
    <2>2. /\ program'.rev = scene.rev
          /\ \A n \in 1..Len(switching') : switching'[n].rev = scene.rev
      BY <2>1, FirstCut DEF StudioInv
    <2>3. QED
      BY <2>1, <2>2
  <1>15. ASSUME CutRejected PROVE Edits'
    <2>1. /\ switching # <<>> /\ switching' = Tail(switching)
          /\ UNCHANGED <<job, scene, dirty, program, snapping>>
      BY <1>15 DEF CutRejected, picture
    <2>2. \A n \in 1..Len(switching') : switching'[n].rev = scene.rev
      BY <2>1, FirstCut DEF StudioInv
    <2>3. QED
      BY <2>1, <2>2
  <1>16. ASSUME CutDone PROVE Edits'
    BY <1>16 DEF CutDone, Edits, Unless, StudioInv, PageTypes, PictureTypes,
       OutputTypes, HistoryTypes, Scene, rooms, link, history
  <1>17. ASSUME StartBroadcast PROVE Edits'
    BY <1>17 DEF StartBroadcast, Edits, Unless, Note, If, Press, StudioInv,
       PageTypes, PictureTypes, OutputTypes, HistoryTypes, NoJob, Scene, rooms,
       picture, output, link
  <1>18. ASSUME StartMixed PROVE Edits'
    BY <1>18 DEF StartMixed, Send, Edits, Unless, StudioInv, PageTypes,
       PictureTypes, OutputTypes, HistoryTypes, Scene, rooms, history
  <1>19. ASSUME StartSent PROVE Edits'
    <2>1. /\ UNCHANGED <<scene, dirty, program, switching, snapping>>
          /\ job' = job \/ job'.kind # "start" \/ (job'.kind = job.kind /\ job'.scene = job.scene)
      BY <1>19 DEF StartSent, Snapshot, picture, StudioInv, PageTypes
    <2>2. QED
      BY <2>1
  <1>20. ASSUME StartDone PROVE Edits'
    <2>1. /\ UNCHANGED <<scene, dirty, program, switching, snapping>>
          /\ job' = job \/ job'.kind # "start" \/ (job'.kind = job.kind /\ job'.scene = job.scene)
      BY <1>20 DEF StartDone, picture, output, NoJob, StudioInv, PageTypes
    <2>2. QED
      BY <2>1
  <1>21. ASSUME StartFails PROVE Edits'
    BY <1>21 DEF StartFails, Edits, Unless, Note, Press, StudioInv, PageTypes,
       PictureTypes, OutputTypes, HistoryTypes, NoJob, Scene, rooms, link
  <1>22. ASSUME StopBroadcast PROVE Edits'
    <2>1. /\ UNCHANGED <<scene, dirty, program, switching, snapping>>
          /\ job' = job \/ job'.kind # "start" \/ (job'.kind = job.kind /\ job'.scene = job.scene)
      BY <1>22 DEF StopBroadcast, Send, picture, output, NoJob, StudioInv, PageTypes
    <2>2. QED
      BY <2>1
  <1>23. ASSUME StopSent PROVE Edits'
    <2>1. /\ UNCHANGED <<scene, dirty, program, switching, snapping>>
          /\ job' = job \/ job'.kind # "start" \/ (job'.kind = job.kind /\ job'.scene = job.scene)
      BY <1>23 DEF StopSent, picture, output, StudioInv, PageTypes
    <2>2. QED
      BY <2>1
  <1>24. ASSUME StopDone PROVE Edits'
    <2>1. /\ UNCHANGED <<scene, dirty, program, switching, snapping>>
          /\ job' = job \/ job'.kind # "start" \/ (job'.kind = job.kind /\ job'.scene = job.scene)
      BY <1>24 DEF StopDone, picture, output, NoJob, StudioInv, PageTypes
    <2>2. QED
      BY <2>1
  <1>25. ASSUME StopFails PROVE Edits'
    <2>1. /\ UNCHANGED <<scene, dirty, program, switching, snapping>>
          /\ job' = job \/ job'.kind # "start" \/ (job'.kind = job.kind /\ job'.scene = job.scene)
      BY <1>25 DEF StopFails, picture, output, NoJob, StudioInv, PageTypes
    <2>2. QED
      BY <2>1
  <1>26. ASSUME Deliver PROVE Edits'
    <2>1. /\ UNCHANGED <<scene, dirty, program, switching, snapping>>
          /\ job' = job \/ job'.kind # "start" \/ (job'.kind = job.kind /\ job'.scene = job.scene)
      BY <1>26 DEF Deliver, Handle, picture, output, StudioInv, PageTypes
    <2>2. QED
      BY <2>1
  <1>27. ASSUME CutUnsent PROVE Edits'
    BY <1>27 DEF CutUnsent, picture, Edits, Unless, StudioInv, PageTypes,
       PictureTypes, OutputTypes, HistoryTypes, Scene, rooms, link, history
  <1>28. QED
    BY <1>1, <1>2, <1>3, <1>4, <1>5, <1>6, <1>7, <1>8, <1>9, <1>10, <1>11, <1>12,
       <1>13, <1>14, <1>15, <1>16, <1>17, <1>18, <1>19, <1>20, <1>21, <1>22, <1>23,
       <1>24, <1>25, <1>26, <1>27 DEF Next

\* A page that takes the bridge on and off air as it says.
LEMMA AirStep ==
    ASSUME StudioInv, Session, AirOfPage, Next,
           Unless({"cutInStop", "leaveInFlight", "leftOnAir", "roomLost", "failed"})'
    PROVE  AirOfPage'
  <1> USE DEF AirOfPage
  <1>1. ASSUME NEW c \in Camera, CameraMoves(c) PROVE AirOfPage'
    <2>1. /\ UNCHANGED <<status, link>> /\ job'.kind = job.kind
          /\ job.step \in {"sending", "snapshot"} => job'.step \in {"sending", "snapshot"}
      BY <1>1 DEF CameraMoves, link, StudioInv, PageTypes
    <2>2. QED
      BY <2>1 DEF OnAir, link
  <1>2. ASSUME NEW c \in Camera, DisconnectSource(c) PROVE AirOfPage'
    <2>1. /\ UNCHANGED <<status, link>> /\ job'.kind = job.kind
          /\ job.step \in {"sending", "snapshot"} => job'.step \in {"sending", "snapshot"}
      BY <1>2 DEF DisconnectSource, link, StudioInv, PageTypes
    <2>2. QED
      BY <2>1 DEF OnAir, link
  <1>3. ASSUME NEW j \in 1..MaxJoins, ConnectStudio(j) PROVE AirOfPage'
    <2>1. status # "live" /\ job.kind # "start" /\ wire = <<>>
      BY <1>3 DEF ConnectStudio, Session, Pending, IsConnected, Unless, Quiet, NoJob
    <2>2. wire' = <<>> /\ bridge' = bridge
      BY <1>3, <2>1, Disconnected DEF ConnectStudio
    <2>3. ~OnAir /\ ~OnAir'
      BY <2>1, <2>2 DEF OnAir
    <2>4. QED
      BY <2>3
  <1>4. ASSUME NEW j \in 1..MaxJoins, JoinSource(j) PROVE AirOfPage'
    <2>1. /\ UNCHANGED <<status, link>> /\ job'.kind = job.kind
          /\ job.step \in {"sending", "snapshot"} => job'.step \in {"sending", "snapshot"}
      BY <1>4 DEF JoinSource, link, StudioInv, PageTypes
    <2>2. QED
      BY <2>1 DEF OnAir, link
  <1>5. ASSUME NEW j \in 1..MaxJoins, EnsureProgramBridge(j) PROVE AirOfPage'
    <2>1. /\ UNCHANGED <<status, link>> /\ job'.kind = job.kind
          /\ job.step \in {"sending", "snapshot"} => job'.step \in {"sending", "snapshot"}
      BY <1>5 DEF EnsureProgramBridge, link, StudioInv, PageTypes
    <2>2. QED
      BY <2>1 DEF OnAir, link
  <1>6. ASSUME NEW j \in 1..MaxJoins, JoinMonitor(j) PROVE AirOfPage'
    <2>1. join[j] = "monitor" /\ status' = "ready" /\ UNCHANGED <<job, link>>
      BY <1>6 DEF JoinMonitor, link
    <2>2. status = "connecting"
      BY <2>1 DEF Session, Pending
    <2>3. ~OnAir
      BY <2>2 DEF Session
    <2>4. QED
      BY <2>1, <2>3 DEF OnAir, link
  <1>7. ASSUME NEW j \in 1..MaxJoins, JoinFails(j) PROVE AirOfPage'
    <2>1. status # "live" /\ job.kind # "start" /\ wire = <<>>
      BY <1>7 DEF JoinFails, Session, Pending, IsConnected, Unless, Quiet, NoJob
    <2>2. wire' = <<>> /\ bridge' = bridge
      BY <1>7, <2>1, Disconnected DEF JoinFails
    <2>3. ~OnAir /\ ~OnAir'
      BY <2>1, <2>2 DEF OnAir
    <2>4. QED
      BY <2>3
  <1>8. ASSUME LeaveStudio PROVE AirOfPage'
    <2>1. Quiet /\ status # "live"
      BY <1>8 DEF LeaveStudio, Note, If, Unless
    <2>2. job = NoJob /\ wire = <<>>
      BY <2>1 DEF Quiet
    <2>3. wire' = <<>> /\ bridge' = bridge
      BY <1>8, <2>2, Disconnected DEF LeaveStudio
    <2>4. ~OnAir /\ ~OnAir'
      BY <2>1, <2>2, <2>3 DEF OnAir, NoJob
    <2>5. QED
      BY <2>4
  <1>9. ASSUME NEW r \in Room, LoseRoom(r) PROVE AirOfPage'
    BY <1>9 DEF LoseRoom, UpdateCameras, Note, Unless
  <1>10. ASSUME NEW c \in Source, SelectCameraSource(c) PROVE AirOfPage'
    <2>1. /\ UNCHANGED <<status, link>> /\ job'.kind = job.kind
          /\ job.step \in {"sending", "snapshot"} => job'.step \in {"sending", "snapshot"}
      BY <1>10 DEF SelectCameraSource, Edit, link, StudioInv, PageTypes
    <2>2. QED
      BY <2>1 DEF OnAir, link
  <1>11. ASSUME UpdateSceneLayers PROVE AirOfPage'
    <2>1. /\ UNCHANGED <<status, link>> /\ job'.kind = job.kind
          /\ job.step \in {"sending", "snapshot"} => job'.step \in {"sending", "snapshot"}
      BY <1>11 DEF UpdateSceneLayers, Edit, link, StudioInv, PageTypes
    <2>2. QED
      BY <2>1 DEF OnAir, link
  <1>12. ASSUME CutSwitch PROVE AirOfPage'
    <2>1. status' = "live" /\ job' = job /\ job.kind # "stop"
      BY <1>12 DEF CutSwitch, Note, If, Unless
    <2>2. QED
      BY <2>1
  <1>13. ASSUME CutLocal PROVE AirOfPage'
    <2>1. /\ UNCHANGED <<status, link>> /\ job'.kind = job.kind
          /\ job.step \in {"sending", "snapshot"} => job'.step \in {"sending", "snapshot"}
      BY <1>13 DEF CutLocal, PressCut, CutEnabled, Snapshot, Previewed, link,
         StudioInv, PageTypes
    <2>2. QED
      BY <2>1 DEF OnAir, link
  <1>14. ASSUME CutSwitched PROVE AirOfPage'
    <2>1. /\ UNCHANGED <<status, link>> /\ job'.kind = job.kind
          /\ job.step \in {"sending", "snapshot"} => job'.step \in {"sending", "snapshot"}
      BY <1>14 DEF CutSwitched, Snapshot, link, StudioInv, PageTypes
    <2>2. QED
      BY <2>1 DEF OnAir, link
  <1>15. ASSUME CutRejected PROVE AirOfPage'
    <2>1. /\ UNCHANGED <<status, link>> /\ job'.kind = job.kind
          /\ job.step \in {"sending", "snapshot"} => job'.step \in {"sending", "snapshot"}
      BY <1>15 DEF CutRejected, link, StudioInv, PageTypes
    <2>2. QED
      BY <2>1 DEF OnAir, link
  <1>16. ASSUME CutDone PROVE AirOfPage'
    <2>1. /\ UNCHANGED <<status, link>> /\ job'.kind = job.kind
          /\ job.step \in {"sending", "snapshot"} => job'.step \in {"sending", "snapshot"}
      BY <1>16 DEF CutDone, link, StudioInv, PageTypes
    <2>2. QED
      BY <2>1 DEF OnAir, link
  <1>17. ASSUME StartBroadcast PROVE AirOfPage'
    <2>1. status = "ready" /\ job = NoJob /\ UNCHANGED link
      BY <1>17 DEF StartBroadcast, link
    <2>2. ~OnAir
      BY <2>1 DEF NoJob
    <2>3. QED
      BY <2>1, <2>2 DEF OnAir, link
  <1>18. ASSUME StartMixed PROVE AirOfPage'
    <2>1. job'.kind = "start" /\ job'.step = "sending"
      BY <1>18 DEF StartMixed, StudioInv, PageTypes
    <2>2. QED
      BY <2>1
  <1>19. ASSUME StartSent PROVE AirOfPage'
    <2>1. /\ UNCHANGED <<status, link>> /\ job'.kind = job.kind
          /\ job.step \in {"sending", "snapshot"} => job'.step \in {"sending", "snapshot"}
      BY <1>19 DEF StartSent, Snapshot, link, StudioInv, PageTypes
    <2>2. QED
      BY <2>1 DEF OnAir, link
  <1>20. ASSUME StartDone PROVE AirOfPage'
    <2>1. status' = "live" /\ job'.kind # "stop"
      BY <1>20 DEF StartDone, NoJob
    <2>2. QED
      BY <2>1
  <1>21. ASSUME StartFails PROVE AirOfPage'
    BY <1>21 DEF StartFails, Note, Unless
  <1>22. ASSUME StopBroadcast PROVE AirOfPage'
    <2>1. Send("program-stop", None) /\ bridge' = bridge
      BY <1>22 DEF StopBroadcast
    <2>2. ~OnAir'
      BY <2>1, SentTypes DEF StudioInv, Source
    <2>3. QED
      BY <2>2
  <1>23. ASSUME StopSent PROVE AirOfPage'
    <2>1. job.kind = "stop" /\ UNCHANGED link
      BY <1>23 DEF StopSent, link
    <2>2. ~OnAir
      BY <2>1
    <2>3. QED
      BY <2>1, <2>2 DEF OnAir, link
  <1>24. ASSUME StopDone PROVE AirOfPage'
    <2>1. job.kind = "stop" /\ UNCHANGED link
      BY <1>24 DEF StopDone, link
    <2>2. ~OnAir
      BY <2>1
    <2>3. QED
      BY <2>1, <2>2 DEF OnAir, link
  <1>25. ASSUME StopFails PROVE AirOfPage'
    BY <1>25 DEF StopFails, Note, Unless
  <1>26. ASSUME Deliver PROVE AirOfPage'
    <2>1. UNCHANGED <<status, job>> /\ (OnAir' <=> OnAir)
      BY <1>26, DeliveredIsFinal DEF Deliver, StudioInv
    <2>2. QED
      BY <2>1
  <1>27. ASSUME CutUnsent PROVE AirOfPage'
    <2>1. /\ UNCHANGED <<status, link>> /\ job'.kind = job.kind
          /\ job.step \in {"sending", "snapshot"} => job'.step \in {"sending", "snapshot"}
      BY <1>27 DEF CutUnsent, picture, link, StudioInv, PageTypes
    <2>2. QED
      BY <2>1 DEF OnAir, link
  <1>28. QED
    BY <1>1, <1>2, <1>3, <1>4, <1>5, <1>6, <1>7, <1>8, <1>9, <1>10, <1>11, <1>12,
       <1>13, <1>14, <1>15, <1>16, <1>17, <1>18, <1>19, <1>20, <1>21, <1>22, <1>23,
       <1>24, <1>25, <1>26, <1>27 DEF Next

\* A step that leaves the picture, the program and the handlers alone.
LEMMA ShowsKept ==
    ASSUME Shows, UNCHANGED <<status, job, program, aired, switching>>,
           OnAir => OnAir', Final \subseteq Final',
           active' = active \/ (active = None \/ (status # "live" /\ job.kind # "start"))
    PROVE  Shows'
  <1>1. status = "live" \/ job.kind = "start" => active # None /\ active' = active
    BY DEF Shows, Starts
  <1>2. job.kind = "start" => Starts(job.scene)'
    BY <1>1 DEF Shows, Starts
  <1>3. QED
    BY <1>1, <1>2 DEF Shows

\* A step that changes neither presses nor programme keeps the last press the winner.
LEMMA WinsKept ==
    ASSUME Wins, UNCHANGED <<status, job, wanted, aired, switching>>,
           Final \subseteq Final',
           active' = active \/ (active = None \/ (status # "live" /\ job.kind # "start"))
    PROVE  Wins'
  <1>1. (status = "live" /\ switching = <<>>) \/ job.kind = "start" =>
            active # None /\ active' = active
    BY DEF Wins, Starts
  <1>2. job.kind = "start" => Starts(wanted)'
    BY <1>1 DEF Wins, Starts
  <1>3. QED
    BY <1>1, <1>2 DEF Wins

\* What is on its way does not change with the page.
LEMMA LinkKept ==
    ASSUME UNCHANGED link
    PROVE  Final' = Final /\ (OnAir' <=> OnAir)
  BY DEF link, Final, Stops, OnAir

\* A page that shows its program.
LEMMA ShowsStep ==
    ASSUME StudioInv, Session, Up, Shows, Next,
           Unless({"cutInStart", "leaveInFlight", "sourceLost", "roomLost", "failed"})'
    PROVE  Shows'
  <1> USE DEF Shows
  <1>1. ASSUME NEW c \in Camera, CameraMoves(c) PROVE Shows'
    <2>1. /\ UNCHANGED <<status, job, program, aired, switching, link>>
          /\ present' \subseteq Camera
      BY <1>1 DEF CameraMoves, output, link, StudioInv, PictureTypes
    <2>2. active' = active \/ (active = None \/ (status # "live" /\ job.kind # "start"))
      BY <1>1, <2>1, UpdatedCameras DEF CameraMoves, picture, Unless, StudioInv
    <2>3. QED
      BY <2>1, <2>2, ShowsKept, LinkKept
  <1>2. ASSUME NEW c \in Camera, DisconnectSource(c) PROVE Shows'
    <2>1. UNCHANGED <<status, job, program, aired, switching, link>> /\ active' = active
      BY <1>2 DEF DisconnectSource, output, link, Note, If, Unless
    <2>2. QED
      BY <2>1, ShowsKept, LinkKept
  <1>3. ASSUME NEW j \in 1..MaxJoins, ConnectStudio(j) PROVE Shows'
    <2>1. status' # "live" /\ job' = job /\ job.kind # "start" /\ UNCHANGED switching
      BY <1>3 DEF ConnectStudio, output, Session, Pending, Unless, NoJob
    <2>2. QED
      BY <2>1
  <1>4. ASSUME NEW j \in 1..MaxJoins, JoinSource(j) PROVE Shows'
    <2>1. /\ UNCHANGED <<status, job, program, aired, switching, link>>
          /\ join[j] = "source"
      BY <1>4 DEF JoinSource, output, link
    <2>2. status # "live" /\ job.kind # "start"
      BY <2>1 DEF Session, Pending
    <2>3. QED
      BY <2>1, <2>2, ShowsKept, LinkKept
  <1>5. ASSUME NEW j \in 1..MaxJoins, EnsureProgramBridge(j) PROVE Shows'
    <2>1. UNCHANGED <<status, job, program, aired, switching, active, link>>
      BY <1>5 DEF EnsureProgramBridge, output, picture, history, link
    <2>2. QED
      BY <2>1, ShowsKept, LinkKept
  <1>6. ASSUME NEW j \in 1..MaxJoins, JoinMonitor(j) PROVE Shows'
    <2>1. status' # "live" /\ job' = job /\ job.kind # "start" /\ UNCHANGED switching
      BY <1>6 DEF JoinMonitor, output, Session, Pending, Unless, NoJob
    <2>2. QED
      BY <2>1
  <1>7. ASSUME NEW j \in 1..MaxJoins, JoinFails(j) PROVE Shows'
    <2>1. status' # "live" /\ job' = job /\ job.kind # "start" /\ UNCHANGED switching
      BY <1>7 DEF JoinFails, output, Session, Pending, Unless, NoJob
    <2>2. QED
      BY <2>1
  <1>8. ASSUME LeaveStudio PROVE Shows'
    <2>1. status' # "live" /\ job' = job /\ job.kind # "start" /\ UNCHANGED switching
      BY <1>8 DEF LeaveStudio, output, Session, Pending, Note, If, Unless, Quiet,
         NoJob
    <2>2. QED
      BY <2>1
  <1>9. ASSUME NEW r \in Room, LoseRoom(r) PROVE Shows'
    BY <1>9 DEF LoseRoom, UpdateCameras, Note, Unless
  <1>10. ASSUME NEW c \in Source, SelectCameraSource(c) PROVE Shows'
    <2>1. UNCHANGED <<status, job, program, aired, switching, active, link>>
      BY <1>10 DEF SelectCameraSource, Edit, output, link
    <2>2. QED
      BY <2>1, ShowsKept, LinkKept
  <1>11. ASSUME UpdateSceneLayers PROVE Shows'
    <2>1. UNCHANGED <<status, job, program, aired, switching, active, link>>
      BY <1>11 DEF UpdateSceneLayers, Edit, output, link
    <2>2. QED
      BY <2>1, ShowsKept, LinkKept
  <1>12. ASSUME CutSwitch PROVE Shows'
    <2>1. /\ status = "live" /\ Previewed \in Scene
          /\ Previewed.camera = preview /\ preview # None
          /\ switching' = Append(switching, Previewed)
          /\ Send("program-switch", preview) /\ bridge' = bridge
          /\ UNCHANGED <<status, job, active, program, aired>>
      BY <1>12 DEF CutSwitch, PressCut, CutEnabled, Previewed, picture, StudioInv,
         PictureTypes, Scene
    <2>2. /\ \A n \in 1..Len(switching') : switching'[n].camera # None
          /\ switching' # <<>> /\ switching'[Len(switching')].camera = preview
      BY <2>1, LastCut DEF StudioInv
    <2>3. OnAir' /\ preview \in Final'
      BY <2>1, SentTypes DEF StudioInv, PictureTypes
    <2>4. job.kind # "start"
      BY <2>1 DEF Session
    <2>5. QED
      BY <2>1, <2>2, <2>3, <2>4
  <1>13. ASSUME CutLocal PROVE Shows'
    <2>1. /\ preview # None /\ IsConnected /\ (status # "live" \/ preview = active)
          /\ active' = preview /\ program' = Previewed /\ aired' = Previewed
          /\ Previewed.camera = preview /\ job.kind # "start"
          /\ UNCHANGED <<status, job, switching, link>>
      BY <1>13 DEF CutLocal, PressCut, CutEnabled, Snapshot, Up, Previewed, Note,
         If, Unless, StudioInv, PictureTypes, Scene
    <2>2. (OnAir' <=> OnAir) /\ Final' = Final
      BY <2>1, LinkKept
    <2>3. QED
      BY <2>1, <2>2
  <1>14. ASSUME CutSwitched PROVE Shows'
    <2>1. /\ switching # <<>> /\ switching' = Tail(switching) /\ IsConnected
          /\ program' = Head(switching) /\ aired' = Head(switching)
          /\ active' = Head(switching).camera /\ UNCHANGED <<status, job, link>>
      BY <1>14 DEF CutSwitched, Snapshot, Up, Session
    <2>2. (OnAir' <=> OnAir) /\ Final' = Final
      BY <2>1, LinkKept
    <2>3. job.kind # "start"
      BY <2>1 DEF Starts
    <2>4. /\ Head(switching).camera # None
          /\ \A n \in 1..Len(switching') : switching'[n].camera # None
      BY <2>1, FirstCut DEF StudioInv
    <2>5. IF switching' = <<>> THEN Head(switching) = switching[Len(switching)]
          ELSE switching'[Len(switching')] = switching[Len(switching)]
      BY <2>1, FirstCut DEF StudioInv
    <2>6. QED
      BY <2>1, <2>2, <2>3, <2>4, <2>5
  <1>15. ASSUME CutRejected PROVE Shows'
    <2>1. switching # <<>> /\ ~SourceUp
      BY <1>15 DEF CutRejected
    <2>2. QED
      BY <2>1 DEF Session, Up
  <1>16. ASSUME CutDone PROVE Shows'
    <2>1. UNCHANGED <<status, job, program, aired, switching, active, link>>
      BY <1>16 DEF CutDone, history, link
    <2>2. QED
      BY <2>1, ShowsKept, LinkKept
  <1>17. ASSUME StartBroadcast PROVE Shows'
    <2>1. /\ status = "ready" /\ active # None /\ switching = <<>>
          /\ job'.kind = "start" /\ job'.step = "mixing" /\ job'.scene.camera = active
          /\ UNCHANGED <<status, active, switching, program, aired>>
      BY <1>17 DEF StartBroadcast, Note, If, Unless, picture, output, StudioInv,
         PictureTypes, Scene
    <2>2. QED
      BY <2>1 DEF Starts
  <1>18. ASSUME StartMixed PROVE Shows'
    <2>1. /\ job.kind = "start" /\ job'.kind = "start" /\ job'.step = "sending"
          /\ job'.scene = job.scene /\ program' = job.scene
          /\ Send("program-start", job.scene.camera) /\ bridge' = bridge
          /\ job.scene.camera \in Source
          /\ UNCHANGED <<status, active, switching, aired>>
      BY <1>18 DEF StartMixed, StudioInv, PageTypes, Scene
    <2>2. OnAir' /\ job.scene.camera \in Final'
      BY <2>1, SentTypes DEF StudioInv
    <2>3. Starts(job.scene)'
      BY <2>1, <2>2 DEF Starts
    <2>4. status' # "live"
      BY <2>1 DEF Session
    <2>5. QED
      BY <2>1, <2>2, <2>3, <2>4
  <1>19. ASSUME StartSent PROVE Shows'
    <2>1. /\ job.kind = "start" /\ job.step = "sending" /\ job'.kind = "start"
          /\ job'.step = "snapshot" /\ job'.scene = job.scene
          /\ status = "ready" /\ aired' = job.scene
          /\ UNCHANGED <<status, active, switching, program, link>>
      BY <1>19 DEF StartSent, Snapshot, Up, Session, IsConnected, picture,
         StudioInv, PageTypes
    <2>2. (OnAir' <=> OnAir) /\ Final' = Final
      BY <2>1, LinkKept
    <2>3. Starts(job.scene)'
      BY <2>1, <2>2 DEF Starts
    <2>4. QED
      BY <2>1, <2>2, <2>3
  <1>20. ASSUME StartDone PROVE Shows'
    <2>1. /\ job.kind = "start" /\ job.step = "snapshot"
          /\ job'.kind = "none" /\ status' = "live"
          /\ UNCHANGED <<active, switching, program, aired, link>>
      BY <1>20 DEF StartDone, picture, output, NoJob
    <2>2. (OnAir' <=> OnAir) /\ Final' = Final
      BY <2>1, LinkKept
    <2>3. /\ active # None /\ program = aired
          /\ program.camera = active /\ switching = <<>>
          /\ OnAir /\ active \in Final
      BY <2>1 DEF Starts
    <2>4. QED
      BY <2>1, <2>2, <2>3
  <1>21. ASSUME StartFails PROVE Shows'
    BY <1>21 DEF StartFails, Note, Unless
  <1>22. ASSUME StopBroadcast PROVE Shows'
    <2>1. /\ status = "live" /\ job'.kind = "stop"
          /\ UNCHANGED <<status, active, switching, program, aired>>
      BY <1>22 DEF StopBroadcast, picture, output, NoJob, Session, StudioInv,
         PageTypes
    <2>2. QED
      BY <2>1
  <1>23. ASSUME StopSent PROVE Shows'
    <2>1. /\ status = "live" /\ job'.kind = "stop"
          /\ UNCHANGED <<status, active, switching, program, aired>>
      BY <1>23 DEF StopSent, picture, output, NoJob, Session, StudioInv, PageTypes
    <2>2. QED
      BY <2>1
  <1>24. ASSUME StopDone PROVE Shows'
    <2>1. status' = "ready" /\ job'.kind = "none" /\ UNCHANGED <<switching>>
      BY <1>24 DEF StopDone, output, NoJob
    <2>2. QED
      BY <2>1
  <1>25. ASSUME StopFails PROVE Shows'
    BY <1>25 DEF StopFails, Note, Unless
  <1>26. ASSUME Deliver PROVE Shows'
    <2>1. UNCHANGED <<status, job, program, aired, switching,
                      active>> /\ (OnAir => OnAir') /\ Final \subseteq Final'
      BY <1>26, DeliveredIsFinal DEF Deliver, output, picture, history, StudioInv
    <2>2. QED
      BY <2>1, ShowsKept
  <1>27. ASSUME CutUnsent PROVE Shows'
    <2>1. UNCHANGED <<status, job, program, aired, switching, active, link>>
      BY <1>27 DEF CutUnsent, picture, history, link
    <2>2. QED
      BY <2>1, ShowsKept, LinkKept
  <1>28. QED
    BY <1>1, <1>2, <1>3, <1>4, <1>5, <1>6, <1>7, <1>8, <1>9, <1>10, <1>11, <1>12,
       <1>13, <1>14, <1>15, <1>16, <1>17, <1>18, <1>19, <1>20, <1>21, <1>22, <1>23,
       <1>24, <1>25, <1>26, <1>27 DEF Next

\* A page on which the last press wins.
LEMMA WinsStep ==
    ASSUME StudioInv, Session, Up, Wins, Next,
           Unless({"cutInStart", "cutInCut", "leaveInFlight", "sourceLost", "roomLost"})'
    PROVE  Wins'
  <1> USE DEF Wins
  <1>1. ASSUME NEW c \in Camera, CameraMoves(c) PROVE Wins'
    <2>1. /\ UNCHANGED <<status, job, wanted, aired, switching, link>>
          /\ present' \subseteq Camera
      BY <1>1 DEF CameraMoves, output, link, StudioInv, PictureTypes
    <2>2. active' = active \/ (active = None \/ (status # "live" /\ job.kind # "start"))
      BY <1>1, <2>1, UpdatedCameras DEF CameraMoves, picture, Unless, StudioInv
    <2>3. QED
      BY <2>1, <2>2, WinsKept, LinkKept
  <1>2. ASSUME NEW c \in Camera, DisconnectSource(c) PROVE Wins'
    <2>1. UNCHANGED <<status, job, wanted, aired, switching, link>> /\ active' = active
      BY <1>2 DEF DisconnectSource, output, link, Note, If, Unless
    <2>2. QED
      BY <2>1, WinsKept, LinkKept
  <1>3. ASSUME NEW j \in 1..MaxJoins, ConnectStudio(j) PROVE Wins'
    <2>1. /\ status' # "live" /\ job' = job
          /\ job.kind # "start" /\ UNCHANGED <<switching, wanted>>
      BY <1>3 DEF ConnectStudio, output, Session, Pending, Unless, Quiet, NoJob
    <2>2. QED
      BY <2>1
  <1>4. ASSUME NEW j \in 1..MaxJoins, JoinSource(j) PROVE Wins'
    <2>1. /\ UNCHANGED <<status, job, wanted, aired, switching, link>>
          /\ join[j] = "source"
      BY <1>4 DEF JoinSource, output, link
    <2>2. status # "live" /\ job.kind # "start"
      BY <2>1 DEF Session, Pending
    <2>3. QED
      BY <2>1, <2>2, WinsKept, LinkKept
  <1>5. ASSUME NEW j \in 1..MaxJoins, EnsureProgramBridge(j) PROVE Wins'
    <2>1. UNCHANGED <<status, job, wanted, aired, switching, active, link>>
      BY <1>5 DEF EnsureProgramBridge, output, picture, history, link
    <2>2. QED
      BY <2>1, WinsKept, LinkKept
  <1>6. ASSUME NEW j \in 1..MaxJoins, JoinMonitor(j) PROVE Wins'
    <2>1. /\ status' # "live" /\ job' = job
          /\ job.kind # "start" /\ UNCHANGED <<switching, wanted>>
      BY <1>6 DEF JoinMonitor, output, history, Session, Pending, Unless, Quiet,
         NoJob
    <2>2. QED
      BY <2>1
  <1>7. ASSUME NEW j \in 1..MaxJoins, JoinFails(j) PROVE Wins'
    <2>1. /\ status' # "live" /\ job' = job
          /\ job.kind # "start" /\ UNCHANGED <<switching, wanted>>
      BY <1>7 DEF JoinFails, output, Session, Pending, Unless, Quiet, NoJob
    <2>2. QED
      BY <2>1
  <1>8. ASSUME LeaveStudio PROVE Wins'
    <2>1. Quiet /\ status' # "live"
      BY <1>8 DEF LeaveStudio, Note, If, Unless
    <2>2. job = NoJob /\ switching = <<>>
      BY <2>1 DEF Quiet
    <2>3. UNCHANGED <<job, switching, wanted>>
      BY <1>8 DEF LeaveStudio, output
    <2>4. QED
      BY <2>1, <2>2, <2>3 DEF NoJob
  <1>9. ASSUME NEW r \in Room, LoseRoom(r) PROVE Wins'
    BY <1>9 DEF LoseRoom, UpdateCameras, Note, Unless
  <1>10. ASSUME NEW c \in Source, SelectCameraSource(c) PROVE Wins'
    <2>1. UNCHANGED <<status, job, wanted, aired, switching, active, link>>
      BY <1>10 DEF SelectCameraSource, Edit, output, link
    <2>2. QED
      BY <2>1, WinsKept, LinkKept
  <1>11. ASSUME UpdateSceneLayers PROVE Wins'
    <2>1. UNCHANGED <<status, job, wanted, aired, switching, active, link>>
      BY <1>11 DEF UpdateSceneLayers, Edit, output, link
    <2>2. QED
      BY <2>1, WinsKept, LinkKept
  <1>12. ASSUME CutSwitch PROVE Wins'
    <2>1. /\ status = "live" /\ Previewed \in Scene
          /\ Previewed.camera = preview /\ preview # None
          /\ switching = <<>> /\ switching' = Append(switching, Previewed)
          /\ wanted' = Previewed
          /\ Send("program-switch", preview) /\ bridge' = bridge
          /\ UNCHANGED <<status, job>>
      BY <1>12 DEF CutSwitch, PressCut, CutEnabled, Previewed, Note, If, Unless,
         StudioInv, PictureTypes, Scene
    <2>2. /\ Len(switching') = 1 /\ switching' # <<>> /\ switching'[1] = Previewed
      BY <2>1, LastCut DEF StudioInv
    <2>3. preview \in Final'
      BY <2>1, SentTypes DEF StudioInv, PictureTypes
    <2>4. job.kind # "start"
      BY <2>1 DEF Session
    <2>5. QED
      BY <2>1, <2>2, <2>3, <2>4
  <1>13. ASSUME CutLocal PROVE Wins'
    <2>1. /\ preview # None /\ (status # "live" \/ preview = active)
          /\ active' = preview /\ aired' = Previewed /\ wanted' = Previewed
          /\ Previewed.camera = preview /\ job.kind # "start" /\ switching = <<>>
          /\ UNCHANGED <<status, job, switching, link>>
      BY <1>13 DEF CutLocal, PressCut, CutEnabled, Snapshot, Up, Previewed, Note,
         If, Unless, StudioInv, PictureTypes, Scene
    <2>2. Final' = Final
      BY <2>1, LinkKept
    <2>3. QED
      BY <2>1, <2>2
  <1>14. ASSUME CutSwitched PROVE Wins'
    <2>1. /\ switching # <<>> /\ switching' = Tail(switching) /\ IsConnected
          /\ aired' = Head(switching) /\ active' = Head(switching).camera
          /\ UNCHANGED <<status, job, wanted, link>>
      BY <1>14 DEF CutSwitched, Snapshot, Up, Session, history
    <2>2. Final' = Final
      BY <2>1, LinkKept
    <2>3. job.kind # "start"
      BY <2>1 DEF Starts
    <2>4. /\ Head(switching) = wanted /\ wanted.camera # None
          /\ Len(switching') <= 1 /\ switching' = <<>>
      BY <2>1, FirstCut DEF StudioInv
    <2>5. QED
      BY <2>1, <2>2, <2>3, <2>4
  <1>15. ASSUME CutRejected PROVE Wins'
    <2>1. switching # <<>> /\ ~SourceUp
      BY <1>15 DEF CutRejected
    <2>2. QED
      BY <2>1 DEF Session, Up
  <1>16. ASSUME CutDone PROVE Wins'
    <2>1. UNCHANGED <<status, job, wanted, aired, switching, active, link>>
      BY <1>16 DEF CutDone, history, link
    <2>2. QED
      BY <2>1, WinsKept, LinkKept
  <1>17. ASSUME StartBroadcast PROVE Wins'
    <2>1. /\ status = "ready" /\ active # None /\ switching = <<>>
          /\ job'.kind = "start" /\ job'.step = "mixing" /\ job'.scene.camera = active
          /\ wanted' = job'.scene
          /\ UNCHANGED <<status, active, switching>>
      BY <1>17 DEF StartBroadcast, Note, If, Unless, picture, output, StudioInv,
         PictureTypes, Scene
    <2>2. QED
      BY <2>1 DEF Starts
  <1>18. ASSUME StartMixed PROVE Wins'
    <2>1. /\ job.kind = "start" /\ job'.kind = "start" /\ job'.step = "sending"
          /\ job'.scene = job.scene
          /\ Send("program-start", job.scene.camera) /\ bridge' = bridge
          /\ job.scene.camera \in Source
          /\ UNCHANGED <<status, active, switching, aired, wanted>>
      BY <1>18 DEF StartMixed, history, StudioInv, PageTypes, Scene
    <2>2. job.scene.camera \in Final'
      BY <2>1, SentTypes DEF StudioInv
    <2>3. Starts(wanted)'
      BY <2>1, <2>2 DEF Starts
    <2>4. status' # "live"
      BY <2>1 DEF Session
    <2>5. QED
      BY <2>1, <2>3, <2>4
  <1>19. ASSUME StartSent PROVE Wins'
    <2>1. /\ job.kind = "start" /\ job.step = "sending" /\ job'.kind = "start"
          /\ job'.step = "snapshot" /\ job'.scene = job.scene
          /\ status = "ready" /\ aired' = job.scene
          /\ UNCHANGED <<status, active, switching, wanted, link>>
      BY <1>19 DEF StartSent, Snapshot, Up, Session, IsConnected, picture, history,
         StudioInv, PageTypes
    <2>2. Final' = Final
      BY <2>1, LinkKept
    <2>3. Starts(wanted)'
      BY <2>1, <2>2 DEF Starts
    <2>4. QED
      BY <2>1, <2>3
  <1>20. ASSUME StartDone PROVE Wins'
    <2>1. /\ job.kind = "start" /\ job.step = "snapshot"
          /\ job'.kind = "none" /\ status' = "live"
          /\ UNCHANGED <<active, switching, wanted, aired, link>>
      BY <1>20 DEF StartDone, picture, output, history, NoJob
    <2>2. Final' = Final
      BY <2>1, LinkKept
    <2>3. /\ active # None /\ wanted = aired
          /\ wanted.camera = active /\ wanted.camera \in Final
      BY <2>1 DEF Starts
    <2>4. QED
      BY <2>1, <2>2, <2>3
  <1>21. ASSUME StartFails PROVE Wins'
    <2>1. status' # "live" /\ job'.kind = "none" /\ UNCHANGED <<switching, wanted>>
      BY <1>21 DEF StartFails, Session, NoJob
    <2>2. QED
      BY <2>1
  <1>22. ASSUME StopBroadcast PROVE Wins'
    <2>1. /\ job'.kind = "stop" /\ Send("program-stop", None) /\ bridge' = bridge
          /\ UNCHANGED <<status, active, switching, wanted, aired>>
      BY <1>22 DEF StopBroadcast, output, history, picture, NoJob
    <2>2. Final \subseteq Final'
      BY <2>1, SentTypes DEF StudioInv, Source
    <2>3. QED
      BY <2>1, <2>2
  <1>23. ASSUME StopSent PROVE Wins'
    <2>1. /\ job'.kind = "stop"
          /\ UNCHANGED <<status, active, switching, wanted, aired, link>>
      BY <1>23 DEF StopSent, output, history, picture, StudioInv, PageTypes
    <2>2. Final' = Final
      BY <2>1, LinkKept
    <2>3. QED
      BY <2>1, <2>2
  <1>24. ASSUME StopDone PROVE Wins'
    <2>1. status' # "live" /\ job'.kind = "none" /\ UNCHANGED <<switching, wanted>>
      BY <1>24 DEF StopDone, output, history, NoJob
    <2>2. QED
      BY <2>1
  <1>25. ASSUME StopFails PROVE Wins'
    <2>1. /\ job'.kind = "none"
          /\ UNCHANGED <<status, active, switching, wanted, aired, link>>
      BY <1>25 DEF StopFails, output, picture, NoJob
    <2>2. Final' = Final
      BY <2>1, LinkKept
    <2>3. QED
      BY <2>1, <2>2
  <1>26. ASSUME Deliver PROVE Wins'
    <2>1. UNCHANGED <<status, job, wanted, aired, switching,
                      active>> /\ (OnAir => OnAir') /\ Final \subseteq Final'
      BY <1>26, DeliveredIsFinal DEF Deliver, output, picture, history, StudioInv
    <2>2. QED
      BY <2>1, WinsKept
  <1>27. ASSUME CutUnsent PROVE Wins'
    <2>1. UNCHANGED <<status, job, wanted, aired, switching, active, link>>
      BY <1>27 DEF CutUnsent, picture, history, link
    <2>2. QED
      BY <2>1, WinsKept, LinkKept
  <1>28. QED
    BY <1>1, <1>2, <1>3, <1>4, <1>5, <1>6, <1>7, <1>8, <1>9, <1>10, <1>11, <1>12,
       <1>13, <1>14, <1>15, <1>16, <1>17, <1>18, <1>19, <1>20, <1>21, <1>22, <1>23,
       <1>24, <1>25, <1>26, <1>27 DEF Next

\* What has not overlapped after a step had not before it.
LEMMA UnlessKept ==
    ASSUME StudioInv, Next, NEW S, Unless(S)'
    PROVE  Unless(S)
  BY Grows DEF Unless

\* An exception that is left out of a condition weakens it.
LEMMA UnlessFewer ==
    ASSUME NEW S, NEW T \in SUBSET S, Unless(S)
    PROVE  Unless(T)
  BY DEF Unless

\* A step of the page, where no exception has come up.
LEMMA PageNext ==
    ASSUME StudioInv, PageInv, Next
    PROVE  PageInv'
  <1>1. SessionInv'
    <2>1. SUFFICES ASSUME Unless({"leaveInFlight"})' PROVE Session'
      BY DEF SessionInv
    <2>2. Unless({"leaveInFlight"})
      BY <2>1, UnlessKept
    <2>3. QED
      BY <2>1, <2>2, SessionStep DEF PageInv, SessionInv
  <1>2. UpInv'
    <2>1. SUFFICES ASSUME Unless({"leaveInFlight", "roomLost"})' PROVE Up'
      BY DEF UpInv
    <2>2. Unless({"leaveInFlight", "roomLost"})
      BY <2>1, UnlessKept
    <2>3. Unless({"leaveInFlight"})
      BY <2>2, UnlessFewer
    <2>4. QED
      BY <2>1, <2>2, <2>3, UpStep DEF PageInv, SessionInv, UpInv
  <1>3. EditsInv'
    <2>1. SUFFICES ASSUME Unless({"editInFlight"})' PROVE Edits'
      BY DEF EditsInv
    <2>2. Unless({"editInFlight"})
      BY <2>1, UnlessKept
    <2>3. QED
      BY <2>1, <2>2, EditsStep DEF PageInv, EditsInv
  <1>4. QED
    BY <1>1, <1>2, <1>3 DEF PageInv

\* A step of the page and the bridge, where no exception has come up.
LEMMA AirNext ==
    ASSUME StudioInv, PageInv, AirInv, Next
    PROVE  AirInv'
  <1>1. SUFFICES ASSUME Unless({"cutInStop", "leaveInFlight", "leftOnAir", "roomLost", "failed"})'
                 PROVE AirOfPage'
    BY DEF AirInv
  <1>2. Unless({"cutInStop", "leaveInFlight", "leftOnAir", "roomLost", "failed"})
    BY <1>1, UnlessKept
  <1>3. Unless({"leaveInFlight"})
    BY <1>2, UnlessFewer
  <1>4. QED
    BY <1>1, <1>2, <1>3, AirStep DEF AirInv, PageInv, SessionInv

\* A step of the page and its viewers, where no exception has come up.
LEMMA ShowsNext ==
    ASSUME StudioInv, PageInv, ShowsInv, Next
    PROVE  ShowsInv'
  <1>1. SUFFICES ASSUME Unless({"cutInStart", "leaveInFlight", "sourceLost", "roomLost", "failed"})'
                 PROVE Shows'
    BY DEF ShowsInv
  <1>2. Unless({"cutInStart", "leaveInFlight", "sourceLost", "roomLost", "failed"})
    BY <1>1, UnlessKept
  <1>3. Unless({"leaveInFlight"}) /\ Unless({"leaveInFlight", "roomLost"})
    BY <1>2, UnlessFewer
  <1>4. QED
    BY <1>1, <1>2, <1>3, ShowsStep DEF ShowsInv, PageInv, SessionInv, UpInv

\* A step of what was pressed, where no exception has come up.
LEMMA WinsNext ==
    ASSUME StudioInv, PageInv, WinsInv, Next
    PROVE  WinsInv'
  <1>1. SUFFICES ASSUME Unless({"cutInStart", "cutInCut", "leaveInFlight", "sourceLost", "roomLost"})'
                 PROVE Wins'
    BY DEF WinsInv
  <1>2. Unless({"cutInStart", "cutInCut", "leaveInFlight", "sourceLost", "roomLost"})
    BY <1>1, UnlessKept
  <1>3. Unless({"leaveInFlight"}) /\ Unless({"leaveInFlight", "roomLost"})
    BY <1>2, UnlessFewer
  <1>4. QED
    BY <1>1, <1>2, <1>3, WinsStep DEF WinsInv, PageInv, SessionInv, UpInv

\* A page that has just been opened.
LEMMA InitIInv ==
    ASSUME Init
    PROVE  IInv
  <1> USE StudioAssumption DEF Init
  <1>1. /\ scene \in Scene /\ scene.rev = 0 /\ Blank \in Scene /\ program = scene
        /\ None \in Source
    BY DEF Scene, Blank, Source
  <1>2. /\ connecting \in BOOLEAN /\ dirty \in BOOLEAN
        /\ connecting = FALSE /\ dirty = FALSE
    OBVIOUS
  <1>3. /\ switching \in Seq(Scene) /\ Len(switching) = 0
        /\ wire \in Seq(Message) /\ Len(wire) = 0
    OBVIOUS
  <1>4. StudioInv
    <2>1. PageTypes
      BY <1>1 DEF PageTypes, Status, NoJob
    <2>2. RoomTypes
      BY <1>2 DEF RoomTypes
    <2>3. PictureTypes
      BY <1>1, <1>2 DEF PictureTypes
    <2>4. OutputTypes
      BY <1>1, <1>3 DEF OutputTypes
    <2>5. LinkTypes
      BY <1>1, <1>3 DEF LinkTypes
    <2>6. HistoryTypes
      BY <1>1 DEF HistoryTypes, Overlap
    <2>7. Counted
      BY <1>1, <1>3 DEF Counted
    <2>8. QED
      BY <2>1, <2>2, <2>3, <2>4, <2>5, <2>6, <2>7 DEF StudioInv
  <1>5. Pending = {}
    BY DEF Pending
  <1>6. PageInv
    <2>1. Session
      BY <1>2, <1>5 DEF Session, IsConnected, NoJob
    <2>2. Up
      BY <1>5 DEF Up, IsConnected
    <2>3. Edits
      BY <1>1, <1>2, <1>3 DEF Edits, NoJob
    <2>4. QED
      BY <2>1, <2>2, <2>3 DEF PageInv, SessionInv, UpInv, EditsInv
  <1>7. AirInv
    BY DEF AirInv, AirOfPage, OnAir
  <1>8. ShowsInv
    BY <1>3 DEF ShowsInv, Shows, NoJob
  <1>9. WinsInv
    BY <1>3 DEF WinsInv, Wins, NoJob
  <1>10. QED
    BY <1>4, <1>6, <1>7, <1>8, <1>9 DEF IInv

\* A step that changes nothing of the page.
LEMMA IInvStutters ==
    ASSUME IInv, UNCHANGED vars
    PROVE  IInv'
  <1> USE DEF vars, rooms, picture, output, link, history
  <1>1. StudioInv'
    BY DEF IInv, StudioInv, PageTypes, RoomTypes, PictureTypes, OutputTypes,
       LinkTypes, HistoryTypes, Counted
  <1>2. PageInv'
    <2>1. SessionInv'
      BY DEF IInv, PageInv, SessionInv, Session, Pending, IsConnected, Unless
    <2>2. UpInv'
      BY DEF IInv, PageInv, UpInv, Up, Pending, IsConnected, SourceUp, MonitorUp,
         Unless
    <2>3. EditsInv'
      BY DEF IInv, PageInv, EditsInv, Edits, Unless
    <2>4. QED
      BY <2>1, <2>2, <2>3 DEF PageInv
  <1>3. Final' = Final /\ (OnAir' <=> OnAir)
    BY LinkKept
  <1>4. AirInv'
    BY <1>3 DEF IInv, AirInv, AirOfPage, Unless
  <1>5. ShowsInv'
    BY <1>3 DEF IInv, ShowsInv, Shows, Starts, Unless
  <1>6. WinsInv'
    BY <1>3 DEF IInv, WinsInv, Wins, Starts, Unless
  <1>7. QED
    BY <1>1, <1>2, <1>4, <1>5, <1>6 DEF IInv

\* The inductive invariant: the page's types and counts, its join and its rooms, its
\* edits, and what the bridge and the viewers have once the channel is empty.
THEOREM StudioAlways == Spec => []IInv
  <1>1. Init => IInv
    BY InitIInv
  <1>2. IInv /\ Next => IInv'
    BY StudioNext, PageNext, AirNext, ShowsNext, WinsNext DEF IInv
  <1>3. IInv /\ [Next]_vars => IInv'
    BY <1>2, IInvStutters
  <1>4. QED
    BY <1>1, <1>3, PTL DEF Spec

\* The types of the page's state. That no more snapshots are awaited than the bound on
\* presses needs the cuts that will take one to be counted.
THEOREM TypeCorrect == Spec => []TypeOK
  <1>1. ASSUME StudioInv PROVE snapping \in 0..MaxPresses
    <2>1. Len(switching) \in Nat
      BY <1>1, LenProperties DEF StudioInv, OutputTypes
    <2>2. QED
      BY <1>1, <2>1, StudioAssumption DEF StudioInv, Counted, OutputTypes,
         HistoryTypes
  <1>2. ASSUME IInv PROVE TypeOK
    BY <1>1, <1>2 DEF IInv, StudioInv, PageTypes, RoomTypes, PictureTypes,
       OutputTypes, LinkTypes, HistoryTypes, TypeOK
  <1>3. QED
    BY <1>2, StudioAlways, PTL

\* On air and at rest, the page, the bridge and the viewers have the same program: the
\* bridge has run to the end of the channel, and there it has the active camera.
THEOREM ProgramIsShown == Spec => []StudioShowsProgram
  <1>1. ASSUME IInv PROVE StudioShowsProgram
    <2>1. SUFFICES ASSUME Quiet, status = "live",
                           Unless({"cutInStart", "leaveInFlight", "sourceLost", "roomLost", "failed"})
                   PROVE  /\ bridge = [source |-> active, started |-> TRUE]
                          /\ aired = program /\ program.camera = active
      BY DEF StudioShowsProgram
    <2>2. Shows /\ job.kind = "none" /\ switching = <<>> /\ wire = <<>>
      BY <1>1, <2>1 DEF IInv, ShowsInv, Quiet, NoJob
    <2>3. OnAir /\ active \in Final /\ aired = program /\ program.camera = active
      BY <2>1, <2>2 DEF Shows
    <2>4. bridge.started
      BY <2>2, <2>3 DEF OnAir
    <2>5. bridge.source = active
      BY <2>2, <2>3 DEF Final
    <2>6. bridge \in [source: Source, started: BOOLEAN]
      BY <1>1 DEF IInv, StudioInv, LinkTypes
    <2>7. QED
      BY <2>3, <2>4, <2>5, <2>6
  <1>2. QED
    BY <1>1, StudioAlways, PTL

\* On air and at rest, the bridge and the viewers have what the last Cut or Start asked.
THEOREM LastPressWins == Spec => []LastCutWins
  <1>1. ASSUME IInv PROVE LastCutWins
    <2>1. SUFFICES ASSUME Quiet, status = "live",
                           Unless({"cutInStart", "cutInCut", "leaveInFlight", "sourceLost", "roomLost"})
                   PROVE  bridge.source = wanted.camera /\ aired = wanted
      BY DEF LastCutWins
    <2>2. Wins /\ switching = <<>> /\ wire = <<>>
      BY <1>1, <2>1 DEF IInv, WinsInv, Quiet
    <2>3. wanted.camera \in Final /\ aired = wanted
      BY <2>1, <2>2 DEF Wins
    <2>4. QED
      BY <2>2, <2>3 DEF Final
  <1>2. QED
    BY <1>1, StudioAlways, PTL

\* At rest and not on air, the bridge is off air too.
THEOREM OffAirWhenNotLive == Spec => []OffAirUnlessLive
  <1>1. ASSUME IInv PROVE OffAirUnlessLive
    BY <1>1 DEF IInv, AirInv, AirOfPage, OnAir, Quiet, NoJob, OffAirUnlessLive
  <1>2. QED
    BY <1>1, StudioAlways, PTL

\* The scene of a camera on air that offers no Cut is the program.
THEOREM CutOfferedWhenNeeded == Spec => []NoCutOfferedWhenShown
  <1>1. ASSUME IInv PROVE NoCutOfferedWhenShown
    BY <1>1 DEF IInv, PageInv, EditsInv, Edits, CutEnabled, NoCutOfferedWhenShown
  <1>2. QED
    BY <1>1, StudioAlways, PTL

\* The page can close every room that is up.
THEOREM RoomsAreHeld == Spec => []NoRoomLeftOpen
  <1>1. ASSUME IInv PROVE NoRoomLeftOpen
    BY <1>1 DEF IInv, PageInv, SessionInv, Session, NoRoomLeftOpen
  <1>2. QED
    BY <1>1, StudioAlways, PTL

=============================================================================
