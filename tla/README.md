# Verification of LiveSteam-WebRTC

TLA+ specifications of the live-production system in this repository, checked
with TLC on small instances and, for their safety, proved with TLAPS for every instance.
References such as `bridge.go:240` are to `src/backend/cmd/api/` unless they say
otherwise.

## 1. Inventory

Cameras and microphones publish into a *source* LiveKit room. A *Studio* page
watches it, chooses what is on air and publishes an audio mix. A *bridge* in the
API process forwards the chosen camera, untouched, as the *program* into a second
room (D1) where viewers watch; a *compositor* worker does the same with image
layers burned in. Scenes (image layers with a revision) travel through the API
and Redis.

| Component | State | Operations | Talks to |
|---|---|---|---|
| Program bridge session (`bridge.go:97-467`) | selection, started, keyframe gate, registered cameras, outputs, continuity | start/switch/stop messages, subscription callbacks, forwarders, retry loops, RTCP of viewers | Studio (data messages), source SFU, D1 |
| RTP continuity (`bridge.go:45-52, 469-490`) | last sequence number and timestamp, bases | `rewriteRTP` | forwarders |
| Bridge manager (`bridge.go:121-221`) | session per room | `ensure`, `connect`, `close` | Studio over HTTP |
| Room registry (`main.go:109-200`) | rooms by code, in memory | create, get, list | channel pages |
| Token service, CORS (`main.go:220-350`) | none | grants by role and target | every page |
| Scene service (`scene.go`) | scene per room, in Redis or memory | get, put with a revision check, publish | Studio, viewers, compositor |
| Asset service (`asset.go`) | files named by content hash | upload, get | scene editor, viewers |
| SFU statistics (`sfu.go`) | none | read-only aggregation | Studio |
| Compositor worker (`../compositor/main.go`) | scenes, runtimes, media session and pipeline per room | load, subscribe, apply scene, track and data callbacks, reconcile | Redis, source SFU, D1, FFmpeg |
| Compositor pipeline (`../compositor/pipeline.go`) | FFmpeg process, UDP port, output track | start, forward, stop | compositor worker |
| Studio (`frontend/.../studio/page.tsx`) | room connections, status, program camera, mixer, scene collection | connect, start, cut, stop, leave, mix, scenes | everything |
| Viewer (`watch/page.tsx`) | room, program tracks, scene | watch, disconnect, track selection | D1, scene service |
| Camera, microphone, D1 test pages | media stream, room or adaptor, status | start, stop, switch | SFUs |
| Scene editor (`scene-editor.tsx`) | drag, layer list (by its parent) | drag, add image, reorder | Studio, asset service |

**What is hard.** Go code that releases a mutex and then uses what it read:
mutes, keyframe requests and the decision to forward a packet in the bridge; the
started flag, the pipeline and the D1 room in the compositor. Callbacks of the
LiveKit SDK that race each other and the handlers. Pages whose buttons start
asynchronous functions that do not know that another one is under way. Scene
revisions that pass through a store, a lossy publish/subscribe channel and data
messages, with no process that sees all of them. Lost keyframe requests. 16- and
32-bit arithmetic. `PROJECT.json` lists each hazard at its line.

**What makes each component correct.**

- Bridge session: outputs muted exactly when stopped; a cut airs the new
  camera's keyframe first; the gate never opens for nothing; a cut completes.
- RTP continuity: one continuous stream of numbers and timestamps, whatever is cut.
- Studio: what it shows as the program is what the bridge forwards and what the
  viewers overlay; off air unless it says live; one mix, from the mixer in use, heard
  as set; nothing of it left when it is stopped or left.
- Scene collection and editor: every scene is what was made of it; a preview that
  differs from the program can be cut; layers stay in the frame and stacked.
- Viewer: the program track to be preferred, the newest scene, the sound the button
  shows, and no connection after it is closed.
- Camera, microphone and D1 test pages: devices and sessions are let go when they
  are stopped, and what the page shows is what it sends.
- Bridge manager: one connected session per room; a failed connect leaves none.
- Room registry: no code is given to two rooms.
- Scene service and compositor: revisions never go back, in the store or at a
  subscriber; the composed output is muted when stopped, and follows the selection.

## 2. Modules

| Module | Subject | Instances |
|---|---|---|
| `ProgramBridge` | a bridge session | `MCProgramBridge` |
| `ProgramFeed` | what the bridge promises viewers, with no goroutines; implemented by `ProgramBridge` | |
| `ProgramBridgeProofs` | theorems about `ProgramBridge` | |
| `RtpContinuity` | numbering of the outputs | `MCRtpContinuity` |
| `RtpContinuityProofs` | theorems about it | |
| `Studio` | the producer's page composed with the bridge's handler at the other end of the control messages | `MCStudio` |
| `StudioOutput` | the page's audio mixer and its two outputs | `MCStudioOutput` |
| `SceneCollection` | the page's scenes, the layer editor, what a cut copies | `MCSceneCollection` |
| `Viewer` | the viewer page, with the Studio's scene messages | `MCViewer` |
| `SourcePage` | the camera page and the microphone page | `MCSourcePage` |
| `D1Test` | the Ant Media test page | `MCD1Test` |
| `StudioProofs`, `StudioOutputProofs`, `SceneCollectionProofs`, `ViewerProofs`, `SourcePageProofs`, `D1TestProofs` | theorems about these pages | |

Two forms recur in the modules of the pages (5 to 10).

*Handlers.* JavaScript runs a handler to its next `await` and then whatever is ready,
so a handler is one action per stretch between two awaits. What its closure captured
is kept in a variable of its own (`job`, `switching`, `upload`, `toggles`); what it
reads through a React ref is read when the step is taken. A request that may be
rejected has a failing action too.

*Exceptions.* The pages do not lock their buttons while a handler waits, and most of
what they promise has an overlap under which it is not kept. The history variable
`overlaps` records which kinds of overlap have happened, and a property names those it
excepts (`Unless({...})`). An exception is a statement too: for each one named, TLC
finds a behaviour with that overlap, and none of the others the property names, that
breaks it, so the lists are what can go wrong in the code, and the property says that
nothing else does.
`MaxPresses` bounds everything the operator or the environment starts; what the page
goes on to do is not bounded.

## 3. `ProgramBridge`

Each action is one critical section of `b.mu` together with the code around it
that touches only the goroutine's own variables.

| Code | Model |
|---|---|
| `b.activeSource`, `started`, `waitKeyframe`, `videoSources` | variables of the same names |
| `b.videoPub`, `b.audioPub` and their mute state | `videoPub`, `audioPub`: none, muted, unmuted |
| `onDataPacket` to `setActiveSource(id, true)` | `Select`, then `MuteVideo`, `MuteAudio`, `RequestKeyframe`: the lock, and each step after it |
| `setStarted(false)` | `Stop`, `MuteVideo`, `MuteAudio` |
| `retryKeyframe` | `RetryTick`, `RetryDeadline`, one loop per selection |
| `readRTCP`, `requestActiveKeyframe` | `ViewerRequest` |
| `onTrackSubscribed`, `ensureVideoOutput`, `ensureAudioOutput` | `SubscribeVideo`, `EnsureVideoOutput`, `VideoPublishFails`, `EnsureAudioOutput`, `AudioPublishFails` |
| `forwardVideo` | `ReadVideo` (read, and look at the gate), `OpenGate`, `WriteVideo` (one per packet), `VideoTrackEnds` |

Abstractions:

- A packet is its kind: `param` (SPS/PPS packets ahead of an IDR), `idr`
  (`h264PacketContainsIDR` holds), `delta` (all others). Whether two packets carry
  the same timestamp, which is all the pending buffer looks at, follows from the
  kinds.
- A keyframe request is sent in the step that read its addressee, or in the
  handler's own step. It arrives (`pli`) or is lost, at most `MaxLost` times.
- `WriteRTP` is part of `WriteVideo` here and a step of its own in `RtpContinuity`,
  and `forwardAudio`'s packets are there too.
- Data messages of one Studio reach `onDataPacket` one by one; SDK callbacks for
  tracks run concurrently with it and with each other.
- The 3 s of `retryKeyframe` are `RetryTicks` ticks: its `time.After` and its ticker are
  independent in the code (`bridge.go:281-283`), where a loop that waits for `b.mu` can
  lose ticks and then ask less often.
- A loop that was started for the empty source id never finds a track and has no
  effect, and is not followed.

**Properties** (in the module, each with its comment). `MuteFollowsStarted`;
`KeyframeBehindOpenGate`; `KeyframeOrSlipFirst`; `BridgeInv`, the inductive
invariant (packets in hand, at most one slip per track and selection, mutes
settle); `ImplementsFeed`, refinement of `ProgramFeed`; `CutCompletes`, liveness.

**Fairness.** Weak fairness of goroutines that can run: the handler, the retry
loops (on timers), the callbacks, and the forwarders' steps other than reading.
Reads are the camera's: it may send deltas for ever, but it ends a keyframe unit it
has begun (weak fairness), and with a request outstanding it begins one some time
(strong fairness, as reads and writes alternate). No fairness for the Studio,
viewers, or cameras joining and leaving. Without the request there is no keyframe:
a retry loop that gives up early violates `CutCompletes`.
`CutCompletes` is stated for a track that is registered and has a forwarder, while
a retry loop of the selection has more ticks left than requests can be lost.

**What the check says about the code.** The documented promise ("waits for it",
`src/README.md:95`) is not quite kept. `forwardVideo` decides by `waiting`, read
when the packet arrived (`bridge.go:408`), and `writeVideoPacket` does not look at
the gate again. A forwarder that holds a delta packet while the Studio cuts away
and back airs it through the closed gate, after the other camera's pictures. Run
`bridge_cut_keyframe` finds it with three selections. `BridgeInv` shows how bad it
can get, one packet per track and selection, and `ProgramFeed` states the promise
with that exception. The next keyframe heals it.

A camera that reconnects while selected is not gated at all: its new track is aired
from whatever comes first, with the gate open. `KeyframeOrSlipFirst` is therefore
stated for one track per camera.

## 4. `RtpContinuity`

One output (video or audio, chosen initially), any number of forwarders. `Read` is
`rewriteRTP` under the lock (`Rebased`, `Numbered`), `Write` is `WriteRTP` after it,
`Drop` a packet read while not on air. Timestamps count frames instead of 3000 or
960 ticks, so that a change of sender costs one. The moduli are constants (2^16 and
2^32 in the code, 3 and 4 in the runs, so that both wrap within a behaviour).
History variables keep what the timestamp should be in unbounded arithmetic.

`NumbersContiguous`, `TrackOrder` and `TimestampsContinuous` hold when every sender
has one track. Overtaking between tracks is not bounded by the code and not claimed.
When a sender comes back with a second track, `ClockSurvivesReconnect` fails (run
`rtp_reconnect`): `rewriteRTP` compares identities (`bridge.go:471`), and the new
track's clock is mapped with the base of the old one.

## 5. `Studio`

The page on its LiveKit output, between joining and leaving, and the bridge that
receives its messages over a reliable, ordered channel.

| Code | Model |
|---|---|
| `connectStudio` | `ConnectStudio`, `JoinSource`, `EnsureProgramBridge`, `JoinMonitor`, `JoinFails`, one `join[j]` per call |
| `updateCameras` and the room events that call it | `UpdateCameras` in `CameraMoves`, `JoinSource`, `LoseRoom` |
| `disconnectAll`, `leaveStudio`, `disconnectSource` | `DisconnectAll`, `LeaveStudio`, `DisconnectSource` |
| `performCut`, `switchCamera` | `CutSwitch`, `CutSwitched`, `CutRejected` on air to another camera, else `CutLocal`; `CutDone`, or `CutUnsent` where the snapshot is rejected |
| `startBroadcast` | `StartBroadcast`, `StartMixed`, `StartSent`, `StartDone`, `StartFails` |
| `stopBroadcast` | `StopBroadcast`, `StopSent`, `StopDone`, `StopFails` |
| `sendBridgeControl`; `onDataPacket` | `Send`; `Deliver` |

`publisherRoom` and `outputPublisherRoom` are named by the call that set them, and
`open` is the set of rooms that are really connected. A scene is its camera and
revision. `LoseMessages` drops a suffix of what is on its way when the room ends.

`StudioShowsProgram`: at rest and live, the bridge runs and forwards the camera shown,
and the viewers have the scene shown. `LastCutWins`: that is what the last press asked
for. `OffAirUnlessLive`, `NoCutOfferedWhenShown`, `NoRoomLeftOpen`.

What the check says about the code. A cut to another camera is not held back while Start
or Stop waits (`page.tsx:551`). In Stop, its `program-switch` follows `program-stop`, and
`setActiveSource(.., true)` puts the bridge on air again while the page shows ready (run
`studio_stop_cut`, against `flow.md:208-209`). In Start, the page shows the cut and the
bridge is then sent the camera of the press. Two cuts in flight end with the first one's
camera on the page and the viewers' overlay (`cutInCut` in `LastCutWins`). Leaving on
air leaves the bridge on air, as `flow.md:219` says. The end of a cut clears the dirty
mark of a newer edit (`editInFlight`).

## 6. `StudioOutput`

The refs `audioContextRef`, `programAudioTrack`, `antMediaPublisherRef` and
`antMediaPlayerRef` hold ids of what was created (`context`, `track`, `publisher`,
`player`); `published`, `adaptors`, `players` and `closed` are what really is. A join is
one step, and the messages of Start and Stop are one await each, as module `Studio` has
them. `Sync` is `syncAudioMixer` to its first await, `Published` the rest; `StopMixer`
and `MixerClosed` are `destroyAudioMixer` before and after `close()`, `StopThrows` what
happens to a Stop whose mixer a Leave is already closing.

`UpdateAudioMix` is every call of `syncAudioMixer` on a mixed page, `enabled` being what is
selected after it: a source toggled, a fader moved (`page.tsx:674-685`), and
`updateCameras` on an event of the room (`:373-389`), which mixes what is selected anew,
also in a Start or a Stop. `PublishStarted` is "publish_started", which the SDK repeats when
it has published anew; every one opens a return player (`:773-779, 798-822`).

`ProgramIsHeard`: live and at rest there is exactly one mix, of the mixer in use, muted
exactly as set (`MixIsHeard`), or one started adaptor with its player
(`AntMediaIsHeard`). `SilentOffAir`: off air nothing is published or open.
`AdaptorsHeld`: Stop and Leave can reach every adaptor there is, with no exception, and
every player unless a publish was confirmed again.

What the check says. A change of the mix while Start or Stop waits publishes a second mix
or one that nobody unpublishes (`mixInStart`, `mixInStop`, `page.tsx:712`): the test for
a publication is before the await and the ref is set after it. It takes no change of the
selection: a fader moved, or a camera that comes or goes, is enough while `statusRef` is
live, as it is to the end of a Stop. A Start in the time the last session's mixer takes to
close builds on the closing one (`startInClose`, `page.tsx:856`). A publish that is
confirmed again (`startedAgain`) opens a second return player, and `:821` overwrites the
only reference to the first, which stays open for good.

## 7. `SceneCollection`

`scenes`, `selected`, `editor`, `dirty`, `preview`, `active`, `program` and `programKey`
are the page's states, `stored` the browser's storage, `upload` and `job` what a picked
image and a Cut or Start captured. The history variable `wanted` applies every edit to
the scene it was made for. Layers lie on one axis (x and width stand for y and height)
with one attribute, visibility, for rotation, flips and opacity. A pointer may ask for
any value; the two outside the frame are the ones the clamps exist for. `DisconnectSource`
is the X of an audio or camera row, which takes the camera out of the Preview before the
camera has left.

`EditorShowsSelected`, `EditsKept` (also over a reload), `LayersStacked`,
`PreviewIsSource`, `ChangesCanBeCut`.

What the check says. An image that arrives after another edit or another scene overwrites
it (`scene-editor.tsx:200`): `addImage` commits the layers, scene and key of the render it
was called in. Opening another scene forgets that the one left was changed
(`page.tsx:984`); back in it, if it is the program's, no Cut is offered. A page that is
joined before its collection is loaded, or whose load failed, edits a placeholder. A source
that is disconnected leaves the Preview empty although the scene still names it and it is
still there (`previewDisconnected`, `page.tsx:591`). `LayersStacked` needs no exception.

Three restrictions keep the module small. One Cut or Start is in flight at a time, and a
Leave waits for it (`job = NoJob`): the code has no such guard (`page.tsx:547, 888`), and
what overlapping ones do to the program and the dirty mark is module `Studio`'s subject.
One image is uploaded at a time: the panel's `uploading` (`scene-editor.tsx:180`) is lost
when the panel unmounts on a Leave, so a page that is left and joined during an upload
could begin a second one. The effect that stores the collection is part of the step that
changes it.

## 8. `Viewer`

`watch` is `GotToken`, `Admit`, `Watching`, `WatchFails`; `admitted` is the room's view of
the viewer, `roomRef` the page's. `Subscribed`, `Unpublish` and `Mute` are the track
events with `selectViewerVideo`. `toggleAudio` has its two awaits. The scene arrives by
`RestArrives` (one answer, or two when the channel is set after the first render) and
`SceneMessage`; the Studio's end is `Cut`, `ProgramRendered` (the effect that sets
`programSceneRef`) and `Greet`.

`ShowsProgramTrack`, which needs no exception; `SoundMatchesButton`; `SceneIsProgram`;
`SceneIsOfChannel`; `NoRoomLeftOpen`.

What the check says. A REST answer that comes after a message replaces a newer scene with
an older one until the next cut (`restAfterMessage`), and the answer for the default room
may come last (`restReordered`). A viewer who joins in the render of a cut is greeted with
the scene before it (`cutInGreeting`). A page closed while it connects stays in the room
(`unmountInConnect`).

## 9. `SourcePage`

One module for both pages, chosen initially, since their starts and stops are the same
but for what they publish. A start is `StartSource`, `RoomFound`, `StreamOpened`,
`RoomConnected`, (`VideoPublished`,) `AudioPublished`; `StopSource` is `stopCamera` and
`stopMicrophone`, whoever calls them.

| Code | Model |
|---|---|
| `localStream.current`; the video track in it | `stream`, the start that opened it; `video` |
| video tracks, audio tracks and their clones that are on | `cameras` (with the side each looks to), `streams`, `clones` |
| `roomRef`; the rooms whose connection is up | `roomRef`; `rooms` |
| the room code of the press (`camera/page.tsx:243`) | `code`, any for each start |
| the `LocalVideoTrack` of a publication | `published`, per start |
| `switchMobileCamera` to its first await | `FlipFacing`, `SwitchCamera` |
| `restartTrack` resolved, with `syncPreviewTrack`; rejected, and tried again | `Restarted`; `RestartFails` |

A room admits one connection per identity, so a start that joins ends an earlier
connection of the page under the same code (`Replaced`), and leaves one under another code
up. A room that ends stops the tracks published in it (`EndRooms`), but not one that is
still being published. `restartTrack` stops the track before it asks for the other camera,
and drops the new one if the old was stopped meanwhile (`halted`, which the second attempt
does not know of). `syncPreviewTrack` puts the new track into the stream the page has when
the restart resolves, in the place of a track that it does not stop.

`SourceReleased`, `ConnectedIsOn`, `ShownIsPublished` (`FacingIsShown`, `MuteIsShown`).

What the check says. A stop before the device is open does not hold: the start goes on and
publishes (`stopBeforeStream`). Between device and room, the camera's start finds no
stream and ends (`RoomConnectedInVain`), the microphone's goes on (`stopInConnect`). The
clone of a track that could not be published is never stopped. A lost room is not noticed.
A camera flipped during a start is flipped on the screen only. A switch of a room that the
page has left (`staleSwitch`) puts its track into the next start's stream, where the next
stop no longer finds the camera it should stop, or reopens a camera after the stop when its
first attempt is rejected (`camera/page.tsx:190-195`). A start under another code while an
earlier one still waits leaves two rooms up, of which the page knows one (`otherRoom`).

## 10. `D1Test`

A start closes what is held, awaits the import of the SDK and creates an adaptor
(`StartPublishing`, `Imported`), which asks for the camera: `CameraGranted` puts it on
whatever became of the adaptor meanwhile, since a stop finds no stream to close, and the
adaptor of a mounted page then publishes (`page.tsx:97-99` asks for `mountedRef` alone). What
`stop` and `closeWebSocket` do to an adaptor without a connection is the SDK's, and taken
to be nothing. The adaptors' callbacks are actions of their own, `Closed` for the delayed
"closed" of one that was stopped. `SessionsHeld` (`NothingLost`, `StopHolds`): every
camera, player and audio context that is open is in a ref. `ScreenIsTrue` (`StopOffered`,
`ReturnIsPlayed`, `SoundIsShown`).

What the check says. A stop during the import is undone by it; a second start during it
leaves the first one's adaptor and camera unreachable. A stop, another start or a closed
page before the operator has answered for the camera leaves it on, with no reference to it
(`stopInPrompt`). The "closed" of the last session sets the status of the next to idle,
which takes its Stop button away; a publish that is confirmed again leaves a player behind;
the sound button is reset at a stop while its element stays audible.

## 11. Runs

| Run | Question | Instance | Result |
|---|---|---|---|
| `bridge_safety` | gate, buffers, what airs, refinement | 2 cameras with a track each, 2 selections, 1 retry tick, symmetric | holds, 0.6 million states |
| `bridge_liveness` | does a cut complete; mutes | 2 cameras of which one publishes, 1 mix track, 2 selections, 3 ticks, 1 lost request | holds, 0.3 million states |
| `bridge_cut_keyframe` | does a cut start with the keyframe | 2 cameras, 3 selections | violated |
| `rtp_continuity` | numbering | 2 senders, 4 packets, moduli 3 and 4 | holds, 1.2 million states |
| `rtp_reconnect` | numbering over a reconnect | 1 sender, 2 tracks | violated |
| `studio` | page, viewers and bridge agree; rooms | 2 cameras, both there at first or neither, 2 joins, 6 presses, symmetric | holds, 4.1 million states |
| `studio_stop_cut` | does Stop take the bridge off air | 2 cameras, 1 join, 4 presses | violated |
| `studio_output` | mix, publication, adaptors | 2 joins, 6 presses, both outputs | holds, 0.5 million states |
| `scenes` | collection, editor, Cut button | 2 cameras, 5 presses, frame of 4 | holds, 0.4 million states |
| `viewer` | picture, sound, scene | 5 presses, one or two REST answers | holds, 4.2 million states |
| `source_page` | devices, rooms, what is shown | 2 room codes, 2 starts, 5 presses, both pages | holds, 1.0 million states |
| `d1_test` | sessions, status, sound | 3 starts, 4 presses | holds, 3.3 million states |

Bounds. Two cameras are the old and the new one of a cut, and a cut involves no
third. Two selections of the bridge put every step of every goroutine before, between and
after two handlers' steps; the third is needed for the way back to the first camera. Every
retry loop does the same, so the number of ticks matters only to `CutCompletes`, where
3 leaves room for one lost request. Four packets wrap both moduli and change sender
twice. The safety proofs need none of these bounds.

In the pages, a hazard takes what brings the page into the state (a join, a start), the
handler that waits, the press that overlaps it and at most one fault or one camera that
moves: the exceptions the properties name are reached with five of these, or six where a join
and a start come first (`studio`, `studio_output`). One exception needs more than its run
has: `NoRoomLeftOpen` of `Studio` is broken by a third join beside a second one that was
left, and holds with two whatever is left when. Two joins let a session inherit what the
last one left; a third start of the D1 page finds what two overlapping ones leave.

Deadlock is checked for the bridge and the numbering. It is not for the pages
(`CHECK_DEADLOCK FALSE`): once the operator's presses are used up, a page at rest waits
for ever, as it may.

Every checked property comes with a mutant, a plausible bug in a mapped operator,
that breaks it; the mutants stand before the operators they mutate.

## 12. Proofs

`ProgramBridgeProofs` proves, for all cameras, tracks, owners and bounds, from
`BridgeAssumption` alone:

| Theorem | Statement |
|---|---|
| `TypeCorrect` | `Spec => []TypeOK` |
| `MuteSafety` | `Spec => []MuteFollowsStarted` |
| `BridgeSafety` | `Spec => []BridgeInv` |
| `KeyframeSafety` | `Spec => []KeyframeBehindOpenGate` |
| `FirstPacket` | `Spec => []KeyframeOrSlipFirst` |
| `BridgeImplementsFeed` | `Spec => ImplementsFeed` |

None of the safety properties is inductive alone. `MutesSettle` adds what the handler
knows in the middle of its steps: a publication it still has to mute was there when it
held the lock, and one that was not was published under the lock with the right mute.
`PacketsInHand` says what a queue can hold, so that what opens the gate is an IDR.
`AtMostOneSlip` needs the history variable `fresh`: a packet read since the cut has
met the closed gate, so one that slips is older, and its forwarder has aired nothing
since. `KeyframeBehindOpenGate` uses the first two: the forwarder that cleared the
gate is still about to write when nothing has been aired. `KeyframeOrSlipFirst`
follows from it in the step that airs the first packet. Refinement maps every action
to one of `ProgramFeed` or to a stutter; `WriteVideo` is the case that needs the
invariants (`AirSlip` allows one slip).

`RtpContinuityProofs` proves, for all tracks, owners, moduli and bounds, from
`RtpAssumption`:

| Theorem | Statement |
|---|---|
| `TypeCorrect` | `Spec => []TypeOK`: every number and timestamp has its width |
| `OrderWithinTrack` | `Spec => []TrackOrder` |
| `EachPacketOnce` | `Spec => []NumberedOnce`, the first half of `NumbersContiguous` |
| `NumbersGoOn` | `Spec => []NumbersContiguous` |
| `TimestampsGoOn` | `OneTrackEach` implies `Spec => []TimestampsContinuous` |

`TrackOrder` rests on `InOrder`: a forwarder has one packet in hand at most, later than
any of its track on the wire (`HandsInOrder`). `NumberInv` ties the record to the last
packet numbered; every other packet is then as many numbers behind as it is places.
For timestamps, `ClockInv` says what the record knows of the last track's clock, in the
unbounded `ideal`, and `StampInv` that the last timestamp is the ideal one up to a
constant. The modular steps are lemmas about `Congruent(M, x, y)`, which is kept
folded: they add and cancel, and never divide. `OneTrackEach`, each participant publishes
one track of the output, is a premise: run `rtp_reconnect` shows that the statement is
false without it, and the rest of the module's theorems do without.

**The pages.** Each module has its own proofs, for every set of cameras and every number
of joins, starts and presses, from the assumption on its constants alone (they say that
bounds are natural numbers, and for the layer editor that a new layer fits the frame). The
inductive invariants were checked by TLC, with bounds like those of the runs, before they
were proved.

| Module | Theorem | Property |
|---|---|---|
| `StudioProofs` | `TypeCorrect`, `ProgramIsShown`, `LastPressWins`, `OffAirWhenNotLive`, `CutOfferedWhenNeeded`, `RoomsAreHeld` | `TypeOK`, `StudioShowsProgram`, `LastCutWins`, `OffAirUnlessLive`, `NoCutOfferedWhenShown`, `NoRoomLeftOpen` |
| `StudioOutputProofs` | `TypeCorrect`, `ProgramHeard`, `OffAirIsSilent`, `AdaptorsReached` | `TypeOK`, `ProgramIsHeard`, `SilentOffAir`, `AdaptorsHeld` |
| `SceneCollectionProofs` | `TypeCorrect`, `LayersStayStacked`, `EditorFollowsSelection`, `NoEditLost`, `PreviewFollowsEditor`, `CutIsOffered` | `TypeOK`, `LayersStacked`, `EditorShowsSelected`, `EditsKept`, `PreviewIsSource`, `ChangesCanBeCut` |
| `ViewerProofs` | `TypeCorrect`, `ProgramTrackShown`, `SoundFollowsButton`, `ProgramSceneDrawn`, `OwnSceneDrawn`, `RoomLeft` | `TypeOK`, `ShowsProgramTrack`, `SoundMatchesButton`, `SceneIsProgram`, `SceneIsOfChannel`, `NoRoomLeftOpen` |
| `SourcePageProofs` | `TypeCorrect`, `StopReleases`, `ConnectedPageIsOn`, `ShowsPublished` | `TypeOK`, `SourceReleased`, `ConnectedIsOn`, `ShownIsPublished` |
| `D1TestProofs` | `TypeCorrect`, `SessionsAreHeld`, `ScreenShowsTest` | `TypeOK`, `SessionsHeld`, `ScreenIsTrue` |

They all have the same shape. What the page promises at rest, `Quiet`, follows from what
holds while its handlers wait, and that is what the invariant has to say. An exception
once recorded in `overlaps` stays, so each conjunct has the form `Unless(E) => I`, and its
proof assumes that no overlap of `E` has happened after the step, hence none before. Where
two conjuncts need each other they are proved together, where one needs another it is
proved after it; a property with fewer exceptions than a conjunct must do without it.

- *Studio.* The bridge lags behind the page by the channel, so the invariant looks through
  it: `OnAir` and `Final` are what the bridge will be when it has read every message.
  `AirInv` ties `OnAir` to the status and the handler that waits, `ShowsInv` and `WinsInv`
  tie `Final` to the active camera, or to the last cut that was sent and has not been
  answered. `SessionInv` says which handlers wait in which status, `EditsInv` that what
  they captured is of the revision shown. `Counted` bounds the cuts and snapshots awaited
  by the presses that asked for them. At rest the channel is empty, and `Final` is the
  camera of the bridge.
- *StudioOutput.* `Held` (the page's refs reach every adaptor) needs no exception, only
  the order of a handler's steps (`Steps`): an adaptor is created when none is left. For the
  players it excepts a publish confirmed again. `Session`, `Mix` and `Heard` have one
  exception more each: which mixer is in use, whether a publication is the page's, and
  whether it is heard.
- *SceneCollection.* First lemmas about a content, `Stacked` and `Framed`, one for each
  operation of the editor: a new layer goes above the greatest height (`Greatest`), a
  reordering permutes the places of the layers, which are cardinalities of the sets above
  them (`Reordered`), a move or a resize clamps. Then lemmas about collections: `Book`
  says that keys are distinct and how many scenes and layers were made, and is kept by
  writing a content anew, appending a scene and taking one out. With them every edit is
  an `EditStep`, and the invariant needs few cases: `Opened` (the scene selected has the
  editor's content, and an upload was begun there), `Kept` (what is stored is what was
  asked for, and an upload began with what is in the editor), `Clean` (a scene not marked
  as changed is what the program shows of it, also while a handler takes it there).
  `Loaded` excludes the placeholder. A Cut is offered because of `Opened` and `Clean`
  together.
- *Viewer.* `TrackInv` ties the refs of the two program tracks to the publications that
  are subscribed. `ProgramOnItsWay`: the last scene message on its way, or the scene
  drawn when there is none, is the program. `PressSettles` follows a press of the sound
  button through its two awaits.
- *SourcePage.* `SourceInv` says what belongs to what: the streams, clones and rooms are
  those of starts that got so far, no two rooms share a code, every video track has an id
  of its own. `Reached` says that a stop finds every start under way, `Alone` that a start
  meets nothing of another's, `OwnStream` that the room and the stream of a connected page
  come from one start. `OneCamera` (no camera is on but the stream's and that of a switch)
  and `CameraOn` (a connected page's is) go through the steps of a switch and of its
  restore, as do `LensFollows`, and `MuteFollows` for the toggles in flight.
- *D1Test.* `OneUnderway`: one start at most awaits the SDK or the camera, and nothing is
  open meanwhile. `Refs`, `Player1` and `Over` are in the order in which they need each
  other; `Counted` counts the starts that are still to make a player, since a player is
  made at every confirmed publish.

**Model-checked only.** Liveness (`CutCompletes`) and the fairness it uses, outside the
prover's reach. The three violated properties are refuted by TLC. Every other property of
the runs is proved, the refinement of `ProgramFeed` included.

## 13. Not modelled

- *Bridge manager.* `ensure` runs under `m.mu` as a whole; a session whose connection
  died is a callback the code does not register, so there is no handler to translate.
- *Room registry, token service, SFU statistics.* A map behind two critical sections, a
  table of grants, a read-only sum: no behaviour over several steps.
- *Scene service.* The Studio keeps its scenes in the browser and sends viewers what they
  draw; the service's order of revisions across replicas is decided by Redis. The
  viewer's REST read is modelled by its possible answers.
- *Asset service.* What a reader sees of a file being rewritten is the file system's.
- *Compositor worker and pipeline.* The composed output is the viewer's second choice
  (`ShowsProgramTrack` covers every way it may come, go and mute). The worker's own
  session, reconciliation and FFmpeg process are not modelled; its hazards are listed.
- *Studio.* The metrics poll, the choice between two program tracks for the Studio's own
  monitor, `switchAntMediaVideo`, and quality hints. Closing the page is in `StudioOutput`
  but not in `Studio`, where on a page that has joined it is a `LeaveStudio` after which
  nothing is pressed. A page that is closed while it joins goes on joining
  (`page.tsx:313-324, 409, 464`) and keeps its rooms: that is not modelled, and
  `NoRoomLeftOpen` does not cover it.
- *Pages.* Device lists, level meters, the viewer count, `sendTestSound`, logs.
- *External.* Deployment files, the load test, styling, stateless forwarding routes, and
  media itself: decoding, FFmpeg's filters, ICE and the SFUs. The order of two Studios in
  one room is not restricted by the code and not examined.
