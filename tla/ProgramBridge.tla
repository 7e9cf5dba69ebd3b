--------------------------- MODULE ProgramBridge ---------------------------
(***************************************************************************)
(* The program RTP bridge of one room (backend/cmd/api/bridge.go): it      *)
(* subscribes to every camera of the source SFU, forwards the selected one *)
(* as the room's program video, and closes a keyframe gate at every cut.   *)
(*                                                                         *)
(* The goroutines, each stepping between two critical sections of b.mu:    *)
(*   - the data-packet handler, which runs the Studio's controls one by    *)
(*     one (control);                                                      *)
(*   - one subscription callback, later forwarder, per remote video track  *)
(*     (forwarder), and one per program-mix-audio track (mixer);           *)
(*   - one keyframe retry loop per selection (retry).                      *)
(*                                                                         *)
(* A packet is its kind: "param" (SPS/PPS ahead of the IDR in a keyframe   *)
(* access unit), "idr" (h264PacketContainsIDR holds) or "delta". A "delta" *)
(* or "param" starts an access unit, i.e. carries a new RTP timestamp; an  *)
(* "idr" continues the unit of the "param" it follows, or is a unit of its *)
(* own (STAP-A). Rewriting of sequence numbers and timestamps is the       *)
(* subject of module RtpContinuity.                                        *)
(***************************************************************************)
EXTENDS Naturals, Sequences

CONSTANTS
    Camera,     \* participant identities that publish camera-video
    Track,      \* remote video tracks; a camera that reconnects has several
    Owner,      \* Owner[t]: the camera that publishes track t
    MixTrack,   \* remote program-mix-audio tracks
    None,       \* the empty source id, and "no track" in videoSources
    MaxSelect,  \* bound: program-start and program-switch messages handled
    RetryTicks, \* ticks before the retry deadline (12 = 3 s / 250 ms)
    MaxLost     \* bound: keyframe requests lost on their way to a camera

ASSUME BridgeAssumption ==
    /\ Owner \in [Track -> Camera]
    /\ None \notin Camera \cup Track
    /\ MaxSelect \in Nat
    /\ RetryTicks \in Nat \ {0}
    /\ MaxLost \in Nat

VARIABLES
    activeSource,  \* b.activeSource
    started,       \* b.started
    waitKeyframe,  \* b.waitKeyframe: the keyframe gate is closed
    videoSources,  \* b.videoSources: camera -> its last registered track
    videoPub,      \* b.videoPub: "none" (nil), "muted" or "unmuted"
    audioPub,      \* b.audioPub, likewise
    control,       \* locals of the control handler
    forwarder,     \* locals of onTrackSubscribed and forwardVideo, per track
    mixer,         \* onTrackSubscribed and forwardAudio, per mix track
    retry,         \* retryKeyframe goroutines, by the selection that began them
    pli,           \* tracks whose camera has an unanswered keyframe request
    lost,          \* keyframe requests lost so far
    epoch,         \* history: selections so far (also indexes retry)
    fresh,         \* history: tracks with a packet in hand read since the cut
    slips,         \* history: per track, non-key packets aired through a
                   \*   closed gate since the cut
    firstAired,    \* history: what went out first since the cut
    lastCamera     \* history: the camera of the last packet that went out

shared  == <<activeSource, started, waitKeyframe, videoSources>>
pubs    == <<videoPub, audioPub>>
request == <<pli, lost>>
history == <<epoch, fresh, slips, firstAired, lastCamera>>
vars    == <<shared, pubs, control, forwarder, mixer, retry, request, history>>

-----------------------------------------------------------------------------
Kind   == {"param", "idr", "delta"}
Source == Camera \cup {None}
Pub    == {"none", "muted", "unmuted"}

\* Where a track is between two reads: at the end of an access unit, or inside a
\* keyframe unit whose "param" is in the pending buffer (pendingTimestamp is its
\* timestamp), or is not.
Unit == {"ended", "buffered", "unbuffered"}
UnitAfter(k, buffered) ==
    IF k # "param" THEN "ended" ELSE IF buffered THEN "buffered" ELSE "unbuffered"

\* What track.ReadRTP may return there.
NextKinds(unit) == IF unit = "ended" THEN Kind ELSE {"idr"}

\* The state SetMuted leaves a publication in.
Muted(flag) == IF flag THEN "muted" ELSE "unmuted"

\* SetMuted on a publication read earlier under b.mu, skipped when it was nil.
SetMuted(pub, known, flag) == IF known THEN Muted(flag) ELSE pub

NoControl == [pc |-> "idle", source |-> None, start |-> FALSE,
              video |-> FALSE, audio |-> FALSE, track |-> None]

NoRetry == [source |-> None, ticks |-> 0]

NewForwarder == [pc |-> "absent", unit |-> "ended", pending |-> <<>>,
                 queue |-> <<>>]

TrackOf(c) == IF c = None THEN None ELSE videoSources[c]

\* participant.WritePLI: RTCP to the camera, which may be lost on the way.
WritePLI(t) ==
    \/ pli' = pli \cup {t} /\ UNCHANGED lost
    \/ lost < MaxLost /\ lost' = lost + 1 /\ UNCHANGED pli

\* WritePLI guarded by `source.track != nil`.
RequestFrom(t) == IF t = None THEN UNCHANGED request ELSE WritePLI(t)

-----------------------------------------------------------------------------
Init ==
    /\ activeSource = None
    /\ started = FALSE
    /\ waitKeyframe = TRUE
    /\ videoSources = [c \in Camera |-> None]
    /\ videoPub = "none"
    /\ audioPub = "none"
    /\ control = NoControl
    /\ forwarder = [t \in Track |-> NewForwarder]
    /\ mixer = [m \in MixTrack |-> "absent"]
    /\ retry = [e \in 1..MaxSelect |-> NoRetry]
    /\ pli = {}
    /\ lost = 0
    /\ epoch = 0
    /\ fresh = {}
    /\ slips = [t \in Track |-> 0]
    /\ firstAired = "none"
    /\ lastCamera = None

-----------------------------------------------------------------------------
(* The control handler: onDataPacket, setActiveSource, setStarted.         *)

\* Mutant: the gate is not closed by a new selection.
SelectKeepsGate(c) ==
    /\ control.pc = "idle"
    /\ epoch < MaxSelect
    /\ activeSource' = c
    /\ started' = TRUE
    /\ control' = [pc |-> "muteVideo", source |-> c, start |-> TRUE,
                   video |-> videoPub # "none", audio |-> audioPub # "none",
                   track |-> TrackOf(c)]
    /\ epoch' = epoch + 1
    /\ fresh' = {}
    /\ slips' = [t \in Track |-> 0]
    /\ firstAired' = "none"
    /\ UNCHANGED <<waitKeyframe, lastCamera, videoSources, pubs, forwarder,
                   mixer, retry, request>>

\* program-start or program-switch: the locked part of setActiveSource.
Select(c) ==
    /\ control.pc = "idle"
    /\ epoch < MaxSelect
    /\ activeSource' = c
    /\ started' = TRUE
    /\ waitKeyframe' = TRUE
    /\ control' = [pc |-> "muteVideo", source |-> c, start |-> TRUE,
                   video |-> videoPub # "none", audio |-> audioPub # "none",
                   track |-> TrackOf(c)]
    /\ epoch' = epoch + 1
    /\ fresh' = {}
    /\ slips' = [t \in Track |-> 0]
    /\ firstAired' = "none"
    /\ UNCHANGED <<lastCamera, videoSources, pubs, forwarder, mixer, retry, request>>

\* program-stop: the locked part of setStarted(false).
Stop ==
    /\ control.pc = "idle"
    /\ started' = FALSE
    /\ control' = [NoControl EXCEPT !.pc = "muteVideo",
                                    !.video = videoPub # "none",
                                    !.audio = audioPub # "none"]
    /\ UNCHANGED <<activeSource, waitKeyframe, videoSources, pubs, forwarder,
                   mixer, retry, request, history>>

\* videoPub.SetMuted(!start), outside b.mu.
MuteVideo ==
    /\ control.pc = "muteVideo"
    /\ videoPub' = SetMuted(videoPub, control.video, ~control.start)
    /\ control' = [control EXCEPT !.pc = "muteAudio"]
    /\ UNCHANGED <<shared, audioPub, forwarder, mixer, retry, request, history>>

\* audioPub.SetMuted(!start); a stop is then done.
MuteAudio ==
    /\ control.pc = "muteAudio"
    /\ audioPub' = SetMuted(audioPub, control.audio, ~control.start)
    /\ control' = IF control.start THEN [control EXCEPT !.pc = "pli"]
                                   ELSE NoControl
    /\ UNCHANGED <<shared, videoPub, forwarder, mixer, retry, request, history>>

\* The end of setActiveSource: WritePLI to the track that was registered when
\* the lock was held, and `go b.retryKeyframe(sourceID)`.
RequestKeyframe ==
    /\ control.pc = "pli"
    /\ RequestFrom(control.track)
    /\ retry' = [retry EXCEPT ![epoch] = [source |-> control.source, ticks |-> 0]]
    /\ control' = NoControl
    /\ UNCHANGED <<shared, pubs, forwarder, mixer, history>>

-----------------------------------------------------------------------------
(* Keyframe requests outside the control handler.                          *)

\* The selection that began the loop is still waiting for its keyframe.
StillWaiting(c) == started /\ activeSource = c /\ waitKeyframe

\* Mutant: the loop has no deadline.
RetryTickForever(e) ==
    /\ retry[e].source # None
    /\ IF StillWaiting(retry[e].source)
       THEN /\ retry' = [retry EXCEPT ![e].ticks = @ + 1]
            /\ RequestFrom(videoSources[retry[e].source])
       ELSE /\ retry' = [retry EXCEPT ![e] = NoRetry]
            /\ UNCHANGED request
    /\ UNCHANGED <<shared, pubs, control, forwarder, mixer, history>>

\* Mutant: the loop gives up while the bridge still waits.
RetryTickGivesUp(e) ==
    /\ retry[e].source # None
    /\ retry[e].ticks < RetryTicks
    /\ IF ~StillWaiting(retry[e].source)
       THEN /\ retry' = [retry EXCEPT ![e].ticks = @ + 1]
            /\ RequestFrom(videoSources[retry[e].source])
       ELSE /\ retry' = [retry EXCEPT ![e] = NoRetry]
            /\ UNCHANGED request
    /\ UNCHANGED <<shared, pubs, control, forwarder, mixer, history>>

\* One 250 ms tick of retryKeyframe. A loop selected on "" never sees a track,
\* exits by deadline only, and is not followed.
RetryTick(e) ==
    /\ retry[e].source # None
    /\ retry[e].ticks < RetryTicks
    /\ IF StillWaiting(retry[e].source)
       THEN /\ retry' = [retry EXCEPT ![e].ticks = @ + 1]
            /\ RequestFrom(videoSources[retry[e].source])
       ELSE /\ retry' = [retry EXCEPT ![e] = NoRetry]
            /\ UNCHANGED request
    /\ UNCHANGED <<shared, pubs, control, forwarder, mixer, history>>

\* The 3 s deadline: it races the last tick only.
RetryDeadline(e) ==
    /\ retry[e].source # None
    /\ retry[e].ticks + 1 >= RetryTicks
    /\ retry' = [retry EXCEPT ![e] = NoRetry]
    /\ UNCHANGED <<shared, pubs, control, forwarder, mixer, request, history>>

\* A PLI or FIR of a D1 subscriber: readRTCP calls requestActiveKeyframe.
ViewerRequest ==
    /\ videoPub # "none"
    /\ TrackOf(activeSource) # None
    /\ WritePLI(TrackOf(activeSource))
    /\ UNCHANGED <<shared, pubs, control, forwarder, mixer, retry, history>>

-----------------------------------------------------------------------------
(* Subscription callbacks: onTrackSubscribed, ensureVideoOutput and        *)
(* ensureAudioOutput.                                                      *)

\* A camera-video track arrives: it is registered under b.mu, and becomes the
\* source when none has been selected.
SubscribeVideo(t) ==
    /\ forwarder[t].pc = "absent"
    /\ videoSources' = [videoSources EXCEPT ![Owner[t]] = t]
    /\ activeSource' = IF activeSource = None THEN Owner[t] ELSE activeSource
    /\ forwarder' = [forwarder EXCEPT ![t].pc = "ensure"]
    /\ UNCHANGED <<started, waitKeyframe, pubs, control, mixer, retry, request,
                   history>>

\* Mutant: the output is published without `pub.SetMuted(!b.started)`.
EnsureVideoUnmuted(t) ==
    /\ forwarder[t].pc = "ensure"
    /\ videoPub' = IF videoPub = "none" THEN "unmuted" ELSE videoPub
    /\ forwarder' = [forwarder EXCEPT ![t].pc = "read"]
    /\ UNCHANGED <<shared, audioPub, control, mixer, retry, request, history>>

\* ensureVideoOutput holds b.mu throughout: the first track publishes, muted
\* unless the program runs, and later ones find the output in place.
EnsureVideoOutput(t) ==
    /\ forwarder[t].pc = "ensure"
    /\ videoPub' = IF videoPub = "none" THEN Muted(~started) ELSE videoPub
    /\ forwarder' = [forwarder EXCEPT ![t].pc = "read"]
    /\ UNCHANGED <<shared, audioPub, control, mixer, retry, request, history>>

\* PublishTrack fails: the callback returns, the track stays registered and
\* has no forwarder.
VideoPublishFails(t) ==
    /\ forwarder[t].pc = "ensure"
    /\ videoPub = "none"
    /\ forwarder' = [forwarder EXCEPT ![t].pc = "failed"]
    /\ UNCHANGED <<shared, pubs, control, mixer, retry, request, history>>

\* A program-mix-audio track arrives: ensureAudioOutput, then forwardAudio.
EnsureAudioOutput(m) ==
    /\ mixer[m] = "absent"
    /\ audioPub' = IF audioPub = "none" THEN Muted(~started) ELSE audioPub
    /\ mixer' = [mixer EXCEPT ![m] = "forward"]
    /\ UNCHANGED <<shared, videoPub, control, forwarder, retry, request, history>>

AudioPublishFails(m) ==
    /\ mixer[m] = "absent"
    /\ audioPub = "none"
    /\ mixer' = [mixer EXCEPT ![m] = "failed"]
    /\ UNCHANGED <<shared, pubs, control, forwarder, retry, request, history>>

-----------------------------------------------------------------------------
(* The loop of forwardVideo.                                               *)

Selected(t) == started /\ activeSource = Owner[t]

\* Mutant: the pending buffer keeps the packets of earlier access units.
BufferedNeverReset(f, k) == Append(f.pending, k)

\* The pending buffer after packet k is appended: it is first emptied when it
\* is of another timestamp, that is, unless k continues the buffered unit.
Buffered(f, k) == IF f.unit = "buffered" THEN Append(f.pending, k) ELSE <<k>>

\* track.ReadRTP returns k, and {active, waiting} are read under b.mu. What
\* follows up to the next critical section is local to the goroutine.
ReadVideo(t, k) ==
    LET f == forwarder[t] IN
    /\ f.pc = "read"
    /\ k \in NextKinds(f.unit)
    /\ forwarder' = [forwarder EXCEPT ![t] =
         IF ~Selected(t) THEN
              [f EXCEPT !.unit = UnitAfter(k, FALSE), !.pending = <<>>]
         ELSE IF waitKeyframe THEN
              [f EXCEPT !.unit = UnitAfter(k, TRUE),
                        !.pending = Buffered(f, k),
                        !.pc = IF k = "idr" THEN "open" ELSE "read"]
         ELSE [f EXCEPT !.unit = UnitAfter(k, FALSE),
                        !.queue = <<k>>,
                        !.pc = "write"]]
    /\ fresh' = IF Selected(t) /\ ~waitKeyframe THEN fresh \cup {t} ELSE fresh
    /\ pli' = IF k = "delta" THEN pli ELSE pli \ {t}
    /\ UNCHANGED <<shared, pubs, control, mixer, retry, lost, epoch, slips,
                   firstAired, lastCamera>>

\* Mutant: any forwarder that holds an IDR opens the gate.
OpenGateUnchecked(t) ==
    /\ forwarder[t].pc = "open"
    /\ waitKeyframe' = FALSE
    /\ forwarder' = [forwarder EXCEPT ![t].pc = "write",
                                      ![t].queue = forwarder[t].pending,
                                      ![t].pending = <<>>]
    /\ UNCHANGED <<activeSource, started, videoSources, pubs, control, mixer,
                   retry, request, history>>

\* The forwarder holds an IDR: it opens the gate if its camera is still the
\* selected one, and turns to the buffered unit either way.
OpenGate(t) ==
    /\ forwarder[t].pc = "open"
    /\ waitKeyframe' = (waitKeyframe /\ activeSource # Owner[t])
    /\ forwarder' = [forwarder EXCEPT ![t].pc = "write",
                                      ![t].queue = forwarder[t].pending,
                                      ![t].pending = <<>>]
    /\ UNCHANGED <<activeSource, started, videoSources, pubs, control, mixer,
                   retry, request, history>>

\* Mutant: writeVideoPacket trusts the selection its caller saw.
AcceptedUnchecked(t) == videoPub # "none"

\* The selection is checked again under b.mu by writeVideoPacket.
Accepted(t) == Selected(t) /\ videoPub # "none"

\* A delta packet goes out although the bridge waits for a keyframe.
Slips(t) == Accepted(t) /\ Head(forwarder[t].queue) = "delta" /\ waitKeyframe

\* What packet the head of t's queue is: a packet of a keyframe unit, a delta
\* through the open gate, a slip that continues the camera last seen on D1, or
\* one that breaks into the pictures of another camera.
Airs(t) ==
    CASE Head(forwarder[t].queue) # "delta" -> "key"
      [] Head(forwarder[t].queue) = "delta" /\ ~waitKeyframe -> "delta"
      [] Slips(t) /\ lastCamera \in {None, Owner[t]} -> "slip"
      [] OTHER -> "break"

\* writeVideoPacket: the packet gets its number under b.mu, or is dropped.
WriteVideo(t) ==
    /\ forwarder[t].pc = "write"
    /\ forwarder[t].queue # <<>>
    /\ slips' = IF Slips(t) THEN [slips EXCEPT ![t] = @ + 1] ELSE slips
    /\ firstAired' = IF Accepted(t) /\ firstAired = "none" THEN Airs(t)
                                                         ELSE firstAired
    /\ lastCamera' = IF Accepted(t) THEN Owner[t] ELSE lastCamera
    /\ forwarder' = [forwarder EXCEPT
         ![t].queue = Tail(@),
         ![t].pc = IF Len(forwarder[t].queue) = 1 THEN "read" ELSE "write"]
    /\ fresh' = fresh \ {t}
    /\ UNCHANGED <<shared, pubs, control, mixer, retry, request, epoch>>

\* ReadRTP fails: the camera left, and its forwarder ends. videoSources keeps
\* the track.
VideoTrackEnds(t) ==
    /\ forwarder[t].pc = "read"
    /\ forwarder' = [forwarder EXCEPT ![t].pc = "ended"]
    /\ UNCHANGED <<shared, pubs, control, mixer, retry, request, history>>

-----------------------------------------------------------------------------
Control == (\E c \in Source : Select(c)) \/ Stop
Handler == MuteVideo \/ MuteAudio \/ RequestKeyframe
Retry(e) == RetryTick(e) \/ RetryDeadline(e)
Subscription(t) ==
    SubscribeVideo(t) \/ EnsureVideoOutput(t) \/ VideoPublishFails(t)
Forward(t) == (\E k \in Kind : ReadVideo(t, k)) \/ OpenGate(t) \/ WriteVideo(t)
Mixer(m) == EnsureAudioOutput(m) \/ AudioPublishFails(m)

Next ==
    \/ Control
    \/ Handler
    \/ ViewerRequest
    \/ \E e \in 1..MaxSelect : Retry(e)
    \/ \E t \in Track : Subscription(t) \/ Forward(t) \/ VideoTrackEnds(t)
    \/ \E m \in MixTrack : Mixer(m)

Spec == Init /\ [][Next]_vars

\* Fairness the code and its runtime justify. Goroutines that can run do run
\* (weak fairness of each): the control handler, the retry loops on their
\* timers, the callbacks and the forwarders, which wait for nothing but packets.
\* What packets come is up to the camera: it may send deltas for ever, but it
\* ends a keyframe unit it has begun, and while it has a request outstanding and
\* goes on producing frames it begins one some time (strong fairness: between
\* two reads the action is disabled). Nothing obliges the Studio, a viewer or a
\* camera to do anything else.
Fairness ==
    /\ WF_vars(Handler)
    /\ \A e \in 1..MaxSelect : WF_vars(Retry(e))
    /\ \A t \in Track :
         /\ WF_vars(EnsureVideoOutput(t))
         /\ WF_vars(OpenGate(t) \/ WriteVideo(t))
         /\ WF_vars(forwarder[t].unit # "ended" /\ ReadVideo(t, "idr"))
         /\ SF_vars(t \in pli /\ (ReadVideo(t, "param") \/ ReadVideo(t, "idr")))

FairSpec == Spec /\ Fairness

-----------------------------------------------------------------------------
(* Properties.                                                             *)

ControlState == [pc : {"idle", "muteVideo", "muteAudio", "pli"},
                 source : Source, start : BOOLEAN,
                 video : BOOLEAN, audio : BOOLEAN, track : Track \cup {None}]
ForwarderState == [
    pc : {"absent", "ensure", "failed", "read", "open", "write", "ended"},
    unit : Unit, pending : Seq(Kind), queue : Seq(Kind)]
RetryState == [source : Source, ticks : 0..RetryTicks]

\* The type invariant of the bridge's fields, the goroutines' locals and the
\* history variables.
TypeOK ==
    /\ activeSource \in Source
    /\ started \in BOOLEAN
    /\ waitKeyframe \in BOOLEAN
    /\ videoSources \in [Camera -> Track \cup {None}]
    /\ videoPub \in Pub
    /\ audioPub \in Pub
    /\ control \in ControlState
    /\ forwarder \in [Track -> ForwarderState]
    /\ mixer \in [MixTrack -> {"absent", "forward", "failed"}]
    /\ retry \in [1..MaxSelect -> RetryState]
    /\ pli \subseteq Track
    /\ lost \in 0..MaxLost
    /\ epoch \in 0..MaxSelect
    /\ fresh \subseteq Track
    /\ slips \in [Track -> Nat]
    /\ firstAired \in {"none", "key", "slip", "break", "delta"}
    /\ lastCamera \in Source

\* Whatever the order in which controls and publications interleave, once the
\* handler has returned both outputs are muted exactly when the program is
\* stopped. setActiveSource and setStarted mute outside b.mu, publications they
\* did not see when they held it; ensureVideoOutput mutes under it.
MuteFollowsStarted ==
    control.pc = "idle" => /\ videoPub \in {"none", Muted(~started)}
                           /\ audioPub \in {"none", Muted(~started)}

\* The gate is never open with nothing behind it: if the program is on air, the
\* gate is open and nothing was aired since the selection, then a forwarder of
\* the selected camera is about to write the keyframe that opened it. It fails
\* if a forwarder of another camera, or one without an IDR, can clear
\* waitKeyframe: the program would stay black, or start undecodable.
KeyUnit == {<<"idr">>, <<"param", "idr">>}
HoldsKeyframe(t) ==
    Selected(t) /\ forwarder[t].pc = "write" /\ forwarder[t].queue \in KeyUnit
KeyframeBehindOpenGate ==
    (started /\ ~waitKeyframe /\ firstAired = "none") =>
        \E t \in Track : HoldsKeyframe(t)

\* While every camera keeps its track, what is aired first after a selection
\* is the keyframe, or the one packet its forwarder had fetched before it.
OneTrackPerCamera == \A t, u \in Track : Owner[t] = Owner[u] => t = u
KeyframeOrSlipFirst == OneTrackPerCamera => firstAired # "delta"

\* The queue of a forwarder that is about to write, and the pending buffer of one
\* that is about to open the gate, hold one packet, or one keyframe unit.
PacketOf(t) ==
    /\ forwarder[t].unit = "buffered" => forwarder[t].pending = <<"param">>
    /\ forwarder[t].pc = "open" => forwarder[t].pending \in KeyUnit
    /\ forwarder[t].pc = "write" =>
          forwarder[t].queue \in KeyUnit \cup {<<"param">>, <<"delta">>}
    /\ forwarder[t].pc \in {"read", "open", "write", "ended"} => videoPub # "none"
PacketsInHand == \A t \in Track : PacketOf(t)

\* At most one slip per track and selection, and why: a packet read since the
\* cut meets a closed gate at the read, so one that slips was read before it,
\* and its forwarder has not aired any other since.
SlipOf(t) ==
    /\ slips[t] <= 1
    /\ (forwarder[t].pc = "write" /\ forwarder[t].queue = <<"delta">>) =>
          IF t \in fresh THEN ~waitKeyframe ELSE slips[t] = 0
AtMostOneSlip == \A t \in Track : SlipOf(t)

\* Why mutes settle: what the handler still has to mute it knows of, and what it
\* does not know of was published under b.mu with the right mute.
MutesSettle ==
    /\ control.pc # "idle" => control.start = started
    /\ (control.pc = "muteVideo" => ~control.video) =>
          videoPub \in {"none", Muted(~started)}
    /\ (control.pc \in {"muteVideo", "muteAudio"} => ~control.audio) =>
          audioPub \in {"none", Muted(~started)}

\* The invariant that carries the proofs: with the types and
\* KeyframeBehindOpenGate it is inductive.
BridgeInv == PacketsInHand /\ AtMostOneSlip /\ MutesSettle

\* README.md:95 and webrtc_concepts.md:77-80: a cut waits for the keyframe, and
\* what is sent starts with the access unit that holds the IDR. So a cut from
\* another camera never begins with a delta packet, which refers to pictures
\* that the audience has not got.
CutStartsWithKeyframe == firstAired # "break"

\* The bridge implements the promise of ProgramFeed: the selection, the gate
\* and the packets it airs are those of a feed that lets at most one stale
\* delta packet per track through a closed gate.
Feed == INSTANCE ProgramFeed
    WITH source <- activeSource, onAir <- started,
         gate <- IF waitKeyframe THEN "closed" ELSE "open",
         first <- firstAired, last <- lastCamera
ImplementsFeed == Feed!Spec

\* A cut completes. If a camera is on air and waited for, its registered track
\* has a forwarder, and a retry loop of the selection has more ticks left than
\* requests can still get lost, then the gate opens, unless the Studio selects
\* or stops, or the track ends or is replaced.
Forwarding(t) == forwarder[t].pc \in {"read", "open", "write"}
RetryLeft(c) == \E e \in 1..MaxSelect :
    retry[e].source = c /\ RetryTicks > retry[e].ticks + (MaxLost - lost) + 1
AwaitingKeyframe(t) ==
    StillWaiting(Owner[t]) /\ videoSources[Owner[t]] = t /\ Forwarding(t)
CutCompletes == \A t \in Track :
    (AwaitingKeyframe(t) /\ RetryLeft(Owner[t])) ~> ~AwaitingKeyframe(t)
=============================================================================
