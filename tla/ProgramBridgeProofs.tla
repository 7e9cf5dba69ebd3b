------------------------ MODULE ProgramBridgeProofs ------------------------
(***************************************************************************)
(* Proofs about ProgramBridge, for every set of cameras and tracks, every  *)
(* ownership and every bound: the types, the mutes, the keyframe gate, and *)
(* that the bridge implements ProgramFeed.                                 *)
(***************************************************************************)
EXTENDS ProgramBridge, SequenceTheorems, TLAPS

-----------------------------------------------------------------------------
(* Types.                                                                  *)

\* The initial state is well typed.
LEMMA TypeInit == Init => TypeOK
<1> SUFFICES ASSUME Init PROVE TypeOK
  OBVIOUS
<1> USE BridgeAssumption DEF Init, Source
<1>1. control \in ControlState
  BY DEF NoControl, ControlState
<1>2. forwarder \in [Track -> ForwarderState]
  BY DEF NewForwarder, ForwarderState, Kind, Unit
<1>3. retry \in [1..MaxSelect -> RetryState]
  BY DEF NoRetry, RetryState
<1>4. slips \in [Track -> Nat] /\ videoSources \in [Camera -> Track \cup {None}]
  OBVIOUS
<1>5. lost \in 0..MaxLost /\ epoch \in 0..MaxSelect
  OBVIOUS
<1>6. QED
  BY <1>1, <1>2, <1>3, <1>4, <1>5 DEF TypeOK, Pub

\* RequestFrom, and so WritePLI, adds at most the track it is given and counts
\* a lost request within the bound.
LEMMA RequestType ==
    ASSUME TypeOK, NEW t \in Track \cup {None}, RequestFrom(t)
    PROVE  pli' \subseteq Track /\ lost' \in 0..MaxLost
<1>1. CASE t = None
  BY <1>1 DEF RequestFrom, request, TypeOK
<1>2. CASE t # None
  BY <1>2, BridgeAssumption DEF RequestFrom, WritePLI, TypeOK
<1>3. QED BY <1>1, <1>2

\* The types of the steps of the control handler.
LEMMA TypeControl == ASSUME TypeOK, Control \/ Handler PROVE TypeOK'
<1> USE BridgeAssumption DEF shared, pubs, request, history
<1>1. ASSUME NEW c \in Source, Select(c) PROVE TypeOK'
  <2>1. control' \in ControlState
    BY <1>1 DEF Select, TypeOK, TrackOf, ControlState, Source
  <2>2. epoch' \in 0..MaxSelect /\ slips' \in [Track -> Nat]
    BY <1>1 DEF Select, TypeOK
  <2>3. QED BY <1>1, <2>1, <2>2 DEF Select, TypeOK
<1>2. CASE Stop
  <2>1. control' \in ControlState
    BY <1>2 DEF Stop, TypeOK, NoControl, ControlState, Source
  <2>2. QED BY <1>2, <2>1 DEF Stop, TypeOK
<1>3. CASE MuteVideo
  <2>1. control' \in ControlState
    BY <1>3 DEF MuteVideo, TypeOK, ControlState
  <2>2. videoPub' \in Pub
    BY <1>3 DEF MuteVideo, TypeOK, SetMuted, Muted, Pub
  <2>3. QED BY <1>3, <2>1, <2>2 DEF MuteVideo, TypeOK
<1>4. CASE MuteAudio
  <2>1. control' \in ControlState
    BY <1>4 DEF MuteAudio, TypeOK, NoControl, ControlState, Source
  <2>2. audioPub' \in Pub
    BY <1>4 DEF MuteAudio, TypeOK, SetMuted, Muted, Pub
  <2>3. QED BY <1>4, <2>1, <2>2 DEF MuteAudio, TypeOK
<1>5. CASE RequestKeyframe
  <2>1. control' \in ControlState
    BY <1>5 DEF RequestKeyframe, NoControl, ControlState, Source
  <2>2. control.track \in Track \cup {None} /\ control.source \in Source
    BY DEF TypeOK, ControlState
  <2>3. pli' \subseteq Track /\ lost' \in 0..MaxLost
    BY <1>5, <2>2, RequestType DEF RequestKeyframe
  <2>4. retry' \in [1..MaxSelect -> RetryState]
    <3>1. [source |-> control.source, ticks |-> 0] \in RetryState
      BY <2>2 DEF RetryState
    <3>2. QED BY <1>5, <3>1 DEF RequestKeyframe, TypeOK
  <2>5. QED BY <1>5, <2>1, <2>3, <2>4 DEF RequestKeyframe, TypeOK
<1>6. QED
  BY <1>1, <1>2, <1>3, <1>4, <1>5 DEF Control, Handler

\* The types of the retry loops and of a viewer's request.
LEMMA TypeRequest ==
    ASSUME TypeOK, (\E e \in 1..MaxSelect : Retry(e)) \/ ViewerRequest
    PROVE  TypeOK'
<1> USE BridgeAssumption DEF shared, pubs, request, history
<1>1. ASSUME NEW e \in 1..MaxSelect, RetryTick(e) PROVE TypeOK'
  <2>1. retry[e] \in RetryState /\ retry[e].source \in Camera
    BY <1>1 DEF RetryTick, TypeOK, RetryState, Source
  <2>2. videoSources[retry[e].source] \in Track \cup {None}
    BY <2>1 DEF TypeOK
  <2>3. pli' \subseteq Track /\ lost' \in 0..MaxLost
    <3>1. CASE StillWaiting(retry[e].source)
      BY <1>1, <2>2, <3>1, RequestType DEF RetryTick
    <3>2. CASE ~StillWaiting(retry[e].source)
      BY <1>1, <3>2 DEF RetryTick, TypeOK
    <3>3. QED BY <3>1, <3>2
  <2>4. retry' \in [1..MaxSelect -> RetryState]
    <3>1. NoRetry \in RetryState
      BY DEF NoRetry, RetryState, Source
    <3>2. retry[e].ticks < RetryTicks =>
            [retry[e] EXCEPT !.ticks = @ + 1] \in RetryState
      BY <2>1 DEF RetryState
    <3>3. QED BY <1>1, <3>1, <3>2 DEF RetryTick, TypeOK
  <2>5. QED BY <1>1, <2>3, <2>4 DEF RetryTick, TypeOK
<1>2. ASSUME NEW e \in 1..MaxSelect, RetryDeadline(e) PROVE TypeOK'
  <2>1. retry' \in [1..MaxSelect -> RetryState]
    BY <1>2 DEF RetryDeadline, TypeOK, RetryState, NoRetry, Source
  <2>2. QED BY <1>2, <2>1 DEF RetryDeadline, TypeOK
<1>3. CASE ViewerRequest
  <2>1. TrackOf(activeSource) \in Track
    BY <1>3 DEF ViewerRequest, TrackOf, TypeOK, Source
  <2>2. pli' \subseteq Track /\ lost' \in 0..MaxLost
    BY <1>3, <2>1 DEF ViewerRequest, WritePLI, TypeOK
  <2>3. QED BY <1>3, <2>2 DEF ViewerRequest, TypeOK
<1>4. QED
  BY <1>1, <1>2, <1>3 DEF Retry

\* The types of the subscription callbacks.
LEMMA TypeSubscribe ==
    ASSUME TypeOK, \/ \E t \in Track : Subscription(t) \/ VideoTrackEnds(t)
                   \/ \E m \in MixTrack : Mixer(m)
    PROVE  TypeOK'
<1> USE BridgeAssumption DEF shared, pubs, request, history
<1>1. ASSUME NEW t \in Track,
             NEW pc \in {"ensure", "failed", "read", "ended"},
             forwarder' = [forwarder EXCEPT ![t].pc = pc]
      PROVE  forwarder' \in [Track -> ForwarderState]
  BY <1>1 DEF TypeOK, ForwarderState
<1>2. ASSUME NEW t \in Track, SubscribeVideo(t) PROVE TypeOK'
  <2>1. activeSource' \in Source
        /\ videoSources' \in [Camera -> Track \cup {None}]
    BY <1>2 DEF SubscribeVideo, TypeOK, Source
  <2>2. forwarder' \in [Track -> ForwarderState]
    BY <1>1, <1>2 DEF SubscribeVideo
  <2>3. QED BY <1>2, <2>1, <2>2 DEF SubscribeVideo, TypeOK
<1>3. ASSUME NEW t \in Track, EnsureVideoOutput(t) PROVE TypeOK'
  <2>1. forwarder' \in [Track -> ForwarderState]
    BY <1>1, <1>3 DEF EnsureVideoOutput
  <2>2. videoPub' \in Pub
    BY <1>3 DEF EnsureVideoOutput, TypeOK, Muted, Pub
  <2>3. QED BY <1>3, <2>1, <2>2 DEF EnsureVideoOutput, TypeOK
<1>4. ASSUME NEW t \in Track, VideoPublishFails(t) PROVE TypeOK'
  <2>1. forwarder' \in [Track -> ForwarderState]
    BY <1>1, <1>4 DEF VideoPublishFails
  <2>2. QED BY <1>4, <2>1 DEF VideoPublishFails, TypeOK
<1>5. ASSUME NEW t \in Track, VideoTrackEnds(t) PROVE TypeOK'
  <2>1. forwarder' \in [Track -> ForwarderState]
    BY <1>1, <1>5 DEF VideoTrackEnds
  <2>2. QED BY <1>5, <2>1 DEF VideoTrackEnds, TypeOK
<1>6. ASSUME NEW m \in MixTrack, EnsureAudioOutput(m) PROVE TypeOK'
  <2>1. audioPub' \in Pub
    BY <1>6 DEF EnsureAudioOutput, TypeOK, Muted, Pub
  <2>2. QED BY <1>6, <2>1 DEF EnsureAudioOutput, TypeOK
<1>7. ASSUME NEW m \in MixTrack, AudioPublishFails(m) PROVE TypeOK'
  BY <1>7 DEF AudioPublishFails, TypeOK
<1>8. QED
  BY <1>2, <1>3, <1>4, <1>5, <1>6, <1>7 DEF Subscription, Mixer

\* The types of the forwarding loop.
LEMMA TypeForward ==
    ASSUME TypeOK, NEW t \in Track, Forward(t)
    PROVE  TypeOK'
<1> USE BridgeAssumption DEF shared, pubs, request, history
<1>0. <<>> \in Seq(Kind)
  OBVIOUS
<1>1. ASSUME NEW k \in Kind, ReadVideo(t, k) PROVE TypeOK'
  <2>1. forwarder[t] \in ForwarderState
    BY DEF TypeOK
  <2>2. Buffered(forwarder[t], k) \in Seq(Kind) /\ <<k>> \in Seq(Kind)
    BY <2>1 DEF Buffered, ForwarderState
  <2>3. UnitAfter(k, TRUE) \in Unit /\ UnitAfter(k, FALSE) \in Unit
    BY DEF UnitAfter, Unit
  <2>4. forwarder' \in [Track -> ForwarderState]
    <3> DEFINE f == forwarder[t]
    <3>1. [f EXCEPT !.unit = UnitAfter(k, FALSE), !.pending = <<>>]
            \in ForwarderState
      BY <1>0, <2>1, <2>3 DEF ForwarderState
    <3>2. [f EXCEPT !.unit = UnitAfter(k, TRUE), !.pending = Buffered(f, k),
                    !.pc = IF k = "idr" THEN "open" ELSE "read"]
            \in ForwarderState
      BY <2>1, <2>2, <2>3 DEF ForwarderState
    <3>3. [f EXCEPT !.unit = UnitAfter(k, FALSE), !.queue = <<k>>, !.pc = "write"]
            \in ForwarderState
      BY <2>1, <2>2, <2>3 DEF ForwarderState
    <3>4. QED BY <1>1, <3>1, <3>2, <3>3 DEF ReadVideo, TypeOK
  <2>5. fresh' \subseteq Track /\ pli' \subseteq Track
    BY <1>1 DEF ReadVideo, TypeOK
  <2>6. QED BY <1>1, <2>4, <2>5 DEF ReadVideo, TypeOK
<1>2. CASE OpenGate(t)
  <2>1. forwarder' \in [Track -> ForwarderState]
    <3>1. forwarder[t] \in ForwarderState
      BY DEF TypeOK
    <3>2. [forwarder[t] EXCEPT !.pc = "write", !.queue = forwarder[t].pending,
                               !.pending = <<>>] \in ForwarderState
      BY <1>0, <3>1 DEF ForwarderState
    <3>3. QED BY <1>2, <3>2 DEF OpenGate, TypeOK
  <2>2. QED BY <1>2, <2>1 DEF OpenGate, TypeOK
<1>3. CASE WriteVideo(t)
  <2>1. forwarder[t] \in ForwarderState
    BY DEF TypeOK
  <2>2. Tail(forwarder[t].queue) \in Seq(Kind)
    BY <1>3, <2>1 DEF WriteVideo, ForwarderState
  <2>3. forwarder' \in [Track -> ForwarderState]
    BY <1>3, <2>1, <2>2 DEF WriteVideo, TypeOK, ForwarderState
  <2>4. slips' \in [Track -> Nat] /\ fresh' \subseteq Track
    BY <1>3 DEF WriteVideo, TypeOK
  <2>5. firstAired' \in {"none", "key", "slip", "break", "delta"}
    BY <1>3 DEF WriteVideo, TypeOK, Airs
  <2>6. lastCamera' \in Source
    BY <1>3 DEF WriteVideo, TypeOK, Source
  <2>7. QED BY <1>3, <2>3, <2>4, <2>5, <2>6 DEF WriteVideo, TypeOK
<1>4. QED BY <1>1, <1>2, <1>3 DEF Forward

\* Every step preserves the types.
LEMMA TypeNext == TypeOK /\ [Next]_vars => TypeOK'
<1>1. ASSUME TypeOK, UNCHANGED vars PROVE TypeOK'
  BY <1>1 DEF TypeOK, vars, shared, pubs, request, history
<1>2. QED
  BY <1>1, TypeControl, TypeRequest, TypeSubscribe, TypeForward DEF Next

\* The fields, the goroutines' locals and the histories have their types, for
\* every interleaving of the handler, the callbacks and the forwarders.
THEOREM TypeCorrect == Spec => []TypeOK
BY TypeInit, TypeNext, PTL DEF Spec

-----------------------------------------------------------------------------
(* Mutes.                                                                  *)

\* The handler, and a publication under b.mu, keep the mutes settling.
LEMMA MutesNext == TypeOK /\ MutesSettle /\ [Next]_vars => MutesSettle'
<1> SUFFICES ASSUME TypeOK, MutesSettle, [Next]_vars PROVE MutesSettle'
  OBVIOUS
<1> DEFINE muted == <<started, control, videoPub, audioPub>>
<1>0. /\ started \in BOOLEAN
      /\ control.pc \in {"idle", "muteVideo", "muteAudio", "pli"}
      /\ videoPub \in Pub /\ audioPub \in Pub
      /\ control \in ControlState
  BY DEF TypeOK, ControlState
<1> USE DEF MutesSettle, Muted, pubs, shared, Pub
<1>1. ASSUME NEW c \in Source, Select(c) PROVE MutesSettle'
  BY <1>0, <1>1 DEF Select
<1>2. CASE Stop
  BY <1>0, <1>2 DEF Stop, NoControl
<1>3. CASE MuteVideo
  BY <1>0, <1>3 DEF MuteVideo, SetMuted, ControlState
<1>4. CASE MuteAudio
  BY <1>0, <1>4 DEF MuteAudio, SetMuted, ControlState, NoControl
<1>5. CASE RequestKeyframe
  BY <1>0, <1>5 DEF RequestKeyframe, NoControl
<1>6. ASSUME NEW t \in Track, EnsureVideoOutput(t) PROVE MutesSettle'
  BY <1>0, <1>6 DEF EnsureVideoOutput
<1>7. ASSUME NEW m \in MixTrack, EnsureAudioOutput(m) PROVE MutesSettle'
  BY <1>0, <1>7 DEF EnsureAudioOutput
<1>8. CASE UNCHANGED muted
  BY <1>8
<1>9. ASSUME NEW t \in Track,
             \/ SubscribeVideo(t) \/ VideoPublishFails(t)
             \/ Forward(t) \/ VideoTrackEnds(t)
      PROVE  UNCHANGED muted
  BY <1>9 DEF SubscribeVideo, VideoPublishFails, Forward, ReadVideo, OpenGate,
              WriteVideo, VideoTrackEnds
<1>10. ASSUME NEW e \in 1..MaxSelect, Retry(e) PROVE UNCHANGED muted
  BY <1>10 DEF Retry, RetryTick, RetryDeadline
<1>11. ASSUME NEW m \in MixTrack, AudioPublishFails(m) PROVE UNCHANGED muted
  BY <1>11 DEF AudioPublishFails
<1>12. ViewerRequest \/ UNCHANGED vars => UNCHANGED muted
  BY DEF ViewerRequest, vars
<1>13. QED
  BY <1>1, <1>2, <1>3, <1>4, <1>5, <1>6, <1>7, <1>8, <1>9, <1>10, <1>11, <1>12
     DEF Next, Control, Handler, Subscription, Mixer

\* Both outputs are muted exactly when the program is stopped whenever no
\* control is being handled, whatever was published meanwhile.
THEOREM MuteSafety == Spec => []MuteFollowsStarted
<1>1. Init => MutesSettle
  BY DEF Init, MutesSettle, NoControl
<1>2. MutesSettle => MuteFollowsStarted
  BY DEF MutesSettle, MuteFollowsStarted
<1>3. QED
  BY <1>1, <1>2, TypeCorrect, MutesNext, PTL DEF Spec

-----------------------------------------------------------------------------
(* The keyframe gate.                                                      *)

\* What the invariants of the gate depend on.
gated == <<activeSource, started, waitKeyframe, forwarder, videoPub, history>>

\* The steps that have nothing to do with the gate.
LEMMA QuietSteps ==
    ASSUME \/ MuteAudio \/ RequestKeyframe \/ ViewerRequest \/ UNCHANGED vars
           \/ \E e \in 1..MaxSelect : Retry(e)
           \/ \E m \in MixTrack : Mixer(m)
    PROVE  UNCHANGED gated
<1> USE DEF gated, shared, pubs, vars
<1>1. ASSUME NEW e \in 1..MaxSelect, Retry(e) PROVE UNCHANGED gated
  BY <1>1 DEF Retry, RetryTick, RetryDeadline
<1>2. ASSUME NEW m \in MixTrack, Mixer(m) PROVE UNCHANGED gated
  BY <1>2 DEF Mixer, EnsureAudioOutput, AudioPublishFails
<1>3. QED
  BY <1>1, <1>2 DEF MuteAudio, RequestKeyframe, ViewerRequest

\* A publication stays one: only ensureVideoOutput turns nil into a track.
LEMMA OutputStays ==
    TypeOK /\ [Next]_vars /\ videoPub # "none" => videoPub' # "none"
<1> SUFFICES ASSUME TypeOK, [Next]_vars, videoPub # "none"
             PROVE  videoPub' # "none"
  OBVIOUS
<1>1. CASE MuteVideo
  BY <1>1 DEF MuteVideo, SetMuted, Muted
<1>2. ASSUME NEW t \in Track, Subscription(t) \/ Forward(t) \/ VideoTrackEnds(t)
      PROVE  videoPub' # "none"
  BY <1>2 DEF Subscription, SubscribeVideo, EnsureVideoOutput, VideoPublishFails,
              Forward, ReadVideo, OpenGate, WriteVideo, VideoTrackEnds, pubs, Muted
<1>3. ASSUME NEW c \in Source, Select(c) PROVE videoPub' # "none"
  BY <1>3 DEF Select, pubs
<1>4. CASE Stop
  BY <1>4 DEF Stop, pubs
<1>5. CASE UNCHANGED gated
  BY <1>5 DEF gated
<1>6. QED
  BY <1>1, <1>2, <1>3, <1>4, <1>5, QuietSteps DEF Next, Control, Handler

\* The two facts about sequences that the keyframe unit needs.
LEMMA KeyUnitFacts ==
    /\ Append(<<"param">>, "idr") = <<"param", "idr">>
    /\ Tail(<<"param", "idr">>) = <<"idr">>
    /\ \A q \in KeyUnit \cup {<<"param">>, <<"delta">>} :
          Len(q) # 1 => q = <<"param", "idr">>
<1> DEFINE s == Append(<<"param">>, "idr")
<1>1. /\ <<"param">> \in Seq(Kind) /\ "idr" \in Kind
      /\ <<"param", "idr">> \in Seq(Kind)
  BY DEF Kind
<1>2. s \in Seq(Kind) /\ Len(s) = 2 /\ s[1] = "param" /\ s[2] = "idr"
  BY <1>1, AppendProperties
<1> HIDE DEF s
<1>3. s = <<"param", "idr">>
  BY <1>1, <1>2, SeqEqual
<1>4. Tail(<<"param", "idr">>) = <<"idr">>
  OBVIOUS
<1>5. \A q \in KeyUnit \cup {<<"param">>, <<"delta">>} :
        Len(q) # 1 => q = <<"param", "idr">>
  BY DEF KeyUnit
<1>6. QED
  BY <1>3, <1>4, <1>5 DEF s

\* Buffers and queues hold one packet or one keyframe unit.
LEMMA PacketsNext == TypeOK /\ PacketsInHand /\ [Next]_vars => PacketsInHand'
<1> SUFFICES ASSUME TypeOK, PacketsInHand, [Next]_vars, NEW u \in Track
             PROVE  PacketOf(u)'
  BY DEF PacketsInHand
<1>0. PacketOf(u) /\ forwarder[u] \in ForwarderState
  BY DEF PacketsInHand, TypeOK
<1>1. ASSUME UNCHANGED <<forwarder>> PROVE PacketOf(u)'
  BY <1>0, <1>1, OutputStays DEF PacketOf
<1>2. ASSUME NEW t \in Track, Subscription(t) \/ Forward(t) \/ VideoTrackEnds(t),
             t # u
      PROVE  PacketOf(u)'
  <2>1. forwarder'[u] = forwarder[u]
    BY <1>2 DEF TypeOK, Subscription, SubscribeVideo, EnsureVideoOutput,
         VideoPublishFails, Forward, ReadVideo, OpenGate, WriteVideo,
         VideoTrackEnds
  <2>2. QED BY <1>0, <2>1, OutputStays DEF PacketOf
<1>3. CASE Subscription(u) \/ VideoTrackEnds(u)
  <2>1. /\ forwarder'[u].unit = forwarder[u].unit
        /\ forwarder'[u].pending = forwarder[u].pending
    BY <1>0, <1>3 DEF TypeOK, ForwarderState, Subscription, SubscribeVideo,
         EnsureVideoOutput, VideoPublishFails, VideoTrackEnds
  <2>2. forwarder'[u].pc \in {"ensure", "read", "failed", "ended"}
    BY <1>0, <1>3 DEF TypeOK, ForwarderState, Subscription, SubscribeVideo,
         EnsureVideoOutput, VideoPublishFails, VideoTrackEnds
  <2>3. forwarder'[u].pc \in {"read", "ended"} => videoPub' # "none"
    <3>1. CASE SubscribeVideo(u) \/ VideoPublishFails(u)
      BY <1>0, <3>1 DEF SubscribeVideo, VideoPublishFails, TypeOK, ForwarderState
    <3>2. CASE EnsureVideoOutput(u)
      BY <3>2 DEF EnsureVideoOutput, Muted
    <3>3. CASE VideoTrackEnds(u)
      BY <1>0, <3>3 DEF VideoTrackEnds, PacketOf, pubs
    <3>4. QED BY <1>3, <3>1, <3>2, <3>3 DEF Subscription
  <2>4. QED BY <1>0, <2>1, <2>2, <2>3 DEF PacketOf
<1>4. ASSUME NEW k \in Kind, ReadVideo(u, k) PROVE PacketOf(u)'
  <2> DEFINE f == forwarder[u]
  <2>1. /\ f.pc = "read" /\ videoPub' = videoPub
        /\ k \in NextKinds(f.unit)
        /\ forwarder' = [forwarder EXCEPT ![u] = forwarder'[u]]
    BY <1>4 DEF ReadVideo, pubs, TypeOK
  <2>2. CASE ~Selected(u)
    <3>1. forwarder'[u] =
            [f EXCEPT !.unit = UnitAfter(k, FALSE), !.pending = <<>>]
      BY <1>4, <2>2 DEF ReadVideo, TypeOK
    <3>2. QED BY <1>0, <2>1, <3>1 DEF PacketOf, UnitAfter, ForwarderState
  <2>3. CASE Selected(u) /\ waitKeyframe
    <3>1. forwarder'[u] =
            [f EXCEPT !.unit = UnitAfter(k, TRUE), !.pending = Buffered(f, k),
                      !.pc = IF k = "idr" THEN "open" ELSE "read"]
      BY <1>4, <2>3 DEF ReadVideo, TypeOK
    <3>2. CASE f.unit = "buffered"
      <4>1. k = "idr" /\ Buffered(f, k) = <<"param", "idr">>
        BY <1>0, <2>1, <3>2, KeyUnitFacts DEF PacketOf, NextKinds, Buffered
      <4>2. QED
        BY <1>0, <2>1, <3>1, <4>1 DEF PacketOf, KeyUnit, UnitAfter, ForwarderState
    <3>3. CASE f.unit # "buffered"
      <4>1. Buffered(f, k) = <<k>>
        BY <3>3 DEF Buffered
      <4>2. QED
        BY <1>0, <2>1, <3>1, <4>1 DEF PacketOf, KeyUnit, UnitAfter, ForwarderState
    <3>4. QED BY <3>2, <3>3
  <2>4. CASE Selected(u) /\ ~waitKeyframe
    <3>1. forwarder'[u] =
            [f EXCEPT !.unit = UnitAfter(k, FALSE), !.queue = <<k>>, !.pc = "write"]
      BY <1>4, <2>4 DEF ReadVideo, TypeOK
    <3>2. QED BY <1>0, <2>1, <3>1 DEF PacketOf, KeyUnit, UnitAfter, ForwarderState, Kind
  <2>5. QED BY <2>2, <2>3, <2>4
<1>5. CASE OpenGate(u)
  <2>1. /\ forwarder[u].pc = "open" /\ videoPub' = videoPub
        /\ forwarder'[u] = [forwarder[u] EXCEPT !.pc = "write",
                              !.queue = forwarder[u].pending, !.pending = <<>>]
    BY <1>0, <1>5 DEF OpenGate, TypeOK, ForwarderState, pubs
  <2>2. forwarder[u].unit # "buffered"
    BY <1>0, <2>1 DEF PacketOf, KeyUnit
  <2>3. QED BY <1>0, <2>1, <2>2 DEF PacketOf, ForwarderState
<1>6. CASE WriteVideo(u)
  <2>1. /\ forwarder'[u].queue = Tail(forwarder[u].queue)
        /\ forwarder'[u].pc = IF Len(forwarder[u].queue) = 1 THEN "read" ELSE "write"
        /\ forwarder'[u].unit = forwarder[u].unit
        /\ forwarder'[u].pending = forwarder[u].pending
        /\ videoPub' = videoPub
    BY <1>0, <1>6 DEF WriteVideo, TypeOK, ForwarderState, pubs
  <2>2. Len(forwarder[u].queue) # 1 => Tail(forwarder[u].queue) = <<"idr">>
    BY <1>0, <1>6, KeyUnitFacts DEF WriteVideo, PacketOf
  <2>3. forwarder[u].pc = "write"
    BY <1>6 DEF WriteVideo
  <2>4. QED BY <1>0, <2>1, <2>2, <2>3 DEF PacketOf, KeyUnit
<1>7. UNCHANGED gated \/ Control \/ MuteVideo => UNCHANGED forwarder
  BY DEF gated, Control, Select, Stop, MuteVideo
<1>8. QED
  BY <1>1, <1>2, <1>3, <1>4, <1>5, <1>6, <1>7, QuietSteps
     DEF Next, Handler, Forward

\* No track slips twice through the gate of one selection.
LEMMA SlipNext ==
    TypeOK /\ PacketsInHand /\ AtMostOneSlip /\ [Next]_vars => AtMostOneSlip'
<1> SUFFICES ASSUME TypeOK, PacketsInHand, AtMostOneSlip, [Next]_vars,
                    NEW u \in Track
             PROVE  SlipOf(u)'
  BY DEF AtMostOneSlip
<1>0. /\ SlipOf(u) /\ PacketOf(u) /\ forwarder[u] \in ForwarderState
      /\ slips[u] \in Nat
  BY DEF AtMostOneSlip, PacketsInHand, TypeOK
<1>1. ASSUME UNCHANGED <<forwarder, slips, fresh, waitKeyframe>> PROVE SlipOf(u)'
  BY <1>0, <1>1 DEF SlipOf
<1>2. ASSUME NEW c \in Source, Select(c) PROVE SlipOf(u)'
  BY <1>2 DEF Select, SlipOf
<1>3. ASSUME NEW t \in Track, Subscription(t) \/ Forward(t) \/ VideoTrackEnds(t),
             t # u
      PROVE  SlipOf(u)'
  <2>1. /\ forwarder'[u] = forwarder[u]
        /\ slips'[u] = slips[u]
        /\ u \in fresh <=> u \in fresh'
        /\ waitKeyframe' => waitKeyframe
    <3>1. CASE Subscription(t) \/ VideoTrackEnds(t)
      BY <1>3, <3>1 DEF TypeOK, Subscription, SubscribeVideo, EnsureVideoOutput,
           VideoPublishFails, VideoTrackEnds, shared, history
    <3>2. ASSUME NEW k \in Kind, ReadVideo(t, k)
          PROVE  /\ forwarder'[u] = forwarder[u]
                 /\ slips'[u] = slips[u]
                 /\ u \in fresh <=> u \in fresh'
                 /\ waitKeyframe' => waitKeyframe
      BY <1>3, <3>2 DEF TypeOK, ReadVideo, shared
    <3>3. CASE OpenGate(t)
      BY <1>3, <3>3 DEF TypeOK, OpenGate, history
    <3>4. CASE WriteVideo(t)
      BY <1>3, <3>4 DEF TypeOK, WriteVideo, shared
    <3>5. QED BY <1>3, <3>1, <3>2, <3>3, <3>4 DEF Forward
  <2>2. waitKeyframe \in BOOLEAN /\ waitKeyframe' \in BOOLEAN
    BY TypeNext DEF TypeOK
  <2>3. QED BY <1>0, <2>1, <2>2 DEF SlipOf
<1>4. CASE Subscription(u) \/ VideoTrackEnds(u)
  <2>1. forwarder'[u].pc # "write" /\ slips' = slips
    BY <1>0, <1>4 DEF TypeOK, ForwarderState, Subscription, SubscribeVideo,
         EnsureVideoOutput, VideoPublishFails, VideoTrackEnds, history
  <2>2. QED BY <1>0, <2>1 DEF SlipOf
<1>5. ASSUME NEW k \in Kind, ReadVideo(u, k) PROVE SlipOf(u)'
  <2>1. slips' = slips /\ waitKeyframe' = waitKeyframe
    BY <1>5 DEF ReadVideo, shared
  <2>2. CASE Selected(u) /\ ~waitKeyframe
    <3>1. u \in fresh'
      BY <1>5, <2>2 DEF ReadVideo
    <3>2. QED BY <1>0, <2>1, <2>2, <3>1 DEF SlipOf
  <2>3. CASE ~(Selected(u) /\ ~waitKeyframe)
    <3>1. forwarder'[u].pc # "write"
      BY <1>0, <1>5, <2>3 DEF ReadVideo, TypeOK, ForwarderState
    <3>2. QED BY <1>0, <2>1, <3>1 DEF SlipOf
  <2>4. QED BY <2>2, <2>3
<1>6. CASE OpenGate(u)
  <2>1. /\ forwarder'[u].queue = forwarder[u].pending
        /\ forwarder[u].pc = "open"
        /\ slips' = slips
    BY <1>0, <1>6 DEF OpenGate, TypeOK, ForwarderState, history
  <2>2. forwarder'[u].queue # <<"delta">>
    BY <1>0, <2>1 DEF PacketOf, KeyUnit
  <2>3. QED BY <1>0, <2>1, <2>2 DEF SlipOf
<1>7. CASE WriteVideo(u)
  <2>1. /\ forwarder[u].pc = "write"
        /\ forwarder[u].queue \in KeyUnit \cup {<<"param">>, <<"delta">>}
    BY <1>0, <1>7 DEF WriteVideo, PacketOf
  <2>2. ~(forwarder'[u].pc = "write" /\ forwarder'[u].queue = <<"delta">>)
    <3>1. /\ forwarder'[u].queue = Tail(forwarder[u].queue)
          /\ forwarder'[u].pc = IF Len(forwarder[u].queue) = 1 THEN "read"
                                                               ELSE "write"
      BY <1>0, <1>7 DEF WriteVideo, TypeOK, ForwarderState
    <3>2. <<"idr">> # <<"delta">>
      OBVIOUS
    <3>3. CASE Len(forwarder[u].queue) = 1
      BY <3>1, <3>3
    <3>4. CASE Len(forwarder[u].queue) # 1
      BY <2>1, <3>1, <3>2, <3>4, KeyUnitFacts
    <3>5. QED BY <3>3, <3>4
  <2>3. slips'[u] <= 1
    <3>1. CASE Slips(u)
      <4>1. forwarder[u].queue = <<"delta">> /\ waitKeyframe
        BY <2>1, <3>1 DEF Slips, KeyUnit
      <4>2. slips[u] = 0
        BY <1>0, <2>1, <4>1 DEF SlipOf
      <4>3. QED BY <1>7, <3>1, <4>2 DEF WriteVideo, TypeOK
    <3>2. CASE ~Slips(u)
      BY <1>0, <1>7, <3>2 DEF WriteVideo, SlipOf
    <3>3. QED BY <3>1, <3>2
  <2>4. QED BY <2>2, <2>3 DEF SlipOf
<1>8. \/ UNCHANGED gated \/ Stop \/ MuteVideo
      => UNCHANGED <<forwarder, slips, fresh, waitKeyframe>>
  BY DEF gated, Stop, MuteVideo, shared, history
<1>9. QED
  BY <1>1, <1>2, <1>3, <1>4, <1>5, <1>6, <1>7, <1>8, QuietSteps
     DEF Next, Control, Handler, Forward

\* The open gate of a selection that has aired nothing has its keyframe coming.
LEMMA KeyframeNext ==
    TypeOK /\ PacketsInHand /\ KeyframeBehindOpenGate /\ [Next]_vars
      => KeyframeBehindOpenGate'
<1> SUFFICES ASSUME TypeOK, PacketsInHand, KeyframeBehindOpenGate, [Next]_vars,
                    started', ~waitKeyframe', firstAired' = "none"
             PROVE  \E u \in Track : HoldsKeyframe(u)'
  BY DEF KeyframeBehindOpenGate
<1> USE DEF HoldsKeyframe, Selected, KeyframeBehindOpenGate
<1>1. CASE UNCHANGED <<activeSource, started, waitKeyframe, forwarder, firstAired>>
  BY <1>1
<1>2. CASE Control
  BY <1>2 DEF Control, Select, Stop
<1>3. ASSUME NEW t \in Track, SubscribeVideo(t) PROVE \E u \in Track : HoldsKeyframe(u)'
  <2>1. PICK u \in Track : HoldsKeyframe(u)
    BY <1>3 DEF SubscribeVideo, history
  <2>2. activeSource # None
    BY <2>1, BridgeAssumption
  <2>3. forwarder'[u] = forwarder[u]
    BY <1>3, <2>1 DEF SubscribeVideo, TypeOK, ForwarderState
  <2>4. QED BY <1>3, <2>1, <2>2, <2>3 DEF SubscribeVideo
<1>4. ASSUME NEW t \in Track,
             \/ EnsureVideoOutput(t) \/ VideoPublishFails(t)
             \/ VideoTrackEnds(t) \/ (\E k \in Kind : ReadVideo(t, k))
      PROVE  \E u \in Track : HoldsKeyframe(u)'
  <2>1. UNCHANGED <<activeSource, started, waitKeyframe, firstAired>>
    BY <1>4 DEF EnsureVideoOutput, VideoPublishFails, VideoTrackEnds, ReadVideo,
         shared, history
  <2>2. PICK u \in Track : HoldsKeyframe(u)
    BY <2>1
  <2>3. forwarder[t].pc # "write"
    BY <1>4 DEF EnsureVideoOutput, VideoPublishFails, VideoTrackEnds, ReadVideo
  <2>4. forwarder'[u] = forwarder[u]
    BY <1>4, <2>2, <2>3 DEF EnsureVideoOutput, VideoPublishFails, VideoTrackEnds,
         ReadVideo, TypeOK
  <2>5. QED BY <2>1, <2>2, <2>4
<1>5. ASSUME NEW t \in Track, OpenGate(t) PROVE \E u \in Track : HoldsKeyframe(u)'
  <2>1. UNCHANGED <<activeSource, started, firstAired>> /\ forwarder[t].pc = "open"
    BY <1>5 DEF OpenGate, history
  <2>2. CASE waitKeyframe
    <3>1. activeSource = Owner[t]
      BY <1>5, <2>2 DEF OpenGate
    <3>2. forwarder'[t].pc = "write" /\ forwarder'[t].queue = forwarder[t].pending
      BY <1>5 DEF OpenGate, TypeOK, ForwarderState
    <3>3. forwarder[t].pending \in KeyUnit
      BY <2>1 DEF PacketsInHand, PacketOf
    <3>4. QED BY <2>1, <3>1, <3>2, <3>3
  <2>3. CASE ~waitKeyframe
    <3>1. PICK u \in Track : HoldsKeyframe(u)
      BY <2>1, <2>3
    <3>2. forwarder'[u] = forwarder[u]
      BY <1>5, <2>1, <3>1 DEF OpenGate, TypeOK
    <3>3. QED BY <2>1, <3>1, <3>2
  <2>4. QED BY <2>2, <2>3
<1>6. ASSUME NEW t \in Track, WriteVideo(t) PROVE \E u \in Track : HoldsKeyframe(u)'
  <2>1. /\ UNCHANGED <<activeSource, started, waitKeyframe>>
        /\ ~Accepted(t) /\ firstAired = "none"
    BY <1>6 DEF WriteVideo, shared, Airs
  <2>2. PICK u \in Track : HoldsKeyframe(u)
    BY <2>1
  <2>3. Accepted(u)
    BY <2>2 DEF Accepted, PacketsInHand, PacketOf
  <2>4. forwarder'[u] = forwarder[u]
    BY <1>6, <2>1, <2>3 DEF WriteVideo, TypeOK
  <2>5. QED BY <2>1, <2>2, <2>4
<1>7. \/ UNCHANGED gated \/ MuteVideo
      => UNCHANGED <<activeSource, started, waitKeyframe, forwarder, firstAired>>
  BY DEF gated, MuteVideo, shared, history
<1>8. QED
  BY <1>1, <1>2, <1>3, <1>4, <1>5, <1>6, <1>7, QuietSteps
     DEF Next, Handler, Subscription, Forward

\* The inductive invariant of the gate.
GateInv == TypeOK /\ PacketsInHand /\ AtMostOneSlip /\ KeyframeBehindOpenGate

LEMMA GateCorrect == Spec => []GateInv
<1>1. Init => PacketsInHand /\ AtMostOneSlip /\ KeyframeBehindOpenGate
  BY DEF Init, PacketsInHand, PacketOf, AtMostOneSlip, SlipOf,
         KeyframeBehindOpenGate, NewForwarder
<1>2. QED
  BY <1>1, TypeCorrect, PacketsNext, SlipNext, KeyframeNext, PTL DEF Spec, GateInv

\* The invariant that the TLC runs check, for every value of the constants.
THEOREM BridgeSafety == Spec => []BridgeInv
<1>1. Init => MutesSettle
  BY DEF Init, MutesSettle, NoControl
<1>2. GateInv /\ MutesSettle => BridgeInv
  BY DEF GateInv, BridgeInv
<1>3. QED
  BY <1>1, <1>2, GateCorrect, TypeCorrect, MutesNext, PTL DEF Spec

\* An open gate on air always has the keyframe aired, or about to be.
THEOREM KeyframeSafety == Spec => []KeyframeBehindOpenGate
<1>1. GateInv => KeyframeBehindOpenGate
  BY DEF GateInv
<1>2. QED BY <1>1, GateCorrect, PTL

\* With one track per camera a selection begins with its keyframe, or with a
\* packet that was fetched before it.
THEOREM FirstPacket == Spec => []KeyframeOrSlipFirst
<1>1. Init => KeyframeOrSlipFirst
  BY DEF Init, KeyframeOrSlipFirst
<1>2. GateInv /\ KeyframeOrSlipFirst /\ [Next]_vars => KeyframeOrSlipFirst'
  <2> SUFFICES ASSUME GateInv, firstAired # "delta", OneTrackPerCamera, [Next]_vars
               PROVE  firstAired' # "delta"
    BY DEF KeyframeOrSlipFirst, OneTrackPerCamera
  <2>1. ASSUME NEW t \in Track, WriteVideo(t) PROVE firstAired' # "delta"
    <3> SUFFICES ASSUME Accepted(t), firstAired = "none", ~waitKeyframe,
                        Head(forwarder[t].queue) = "delta"
                 PROVE  FALSE
      BY <2>1 DEF WriteVideo, Airs
    <3>1. PICK u \in Track : HoldsKeyframe(u)
      BY DEF Accepted, Selected, GateInv, KeyframeBehindOpenGate
    <3>2. u = t
      BY <3>1 DEF Accepted, Selected, HoldsKeyframe, OneTrackPerCamera
    <3>3. QED BY <3>1, <3>2 DEF HoldsKeyframe, KeyUnit
  <2>2. ASSUME NEW t \in Track,
               \/ Subscription(t) \/ VideoTrackEnds(t) \/ OpenGate(t)
               \/ \E k \in Kind : ReadVideo(t, k)
        PROVE  firstAired' = firstAired
    BY <2>2 DEF Subscription, SubscribeVideo, EnsureVideoOutput,
         VideoPublishFails, VideoTrackEnds, OpenGate, ReadVideo, history
  <2>3. Control => firstAired' \in {"none", firstAired}
    BY DEF Control, Select, Stop, history
  <2>4. UNCHANGED gated \/ MuteVideo => firstAired' = firstAired
    BY DEF gated, MuteVideo, history
  <2>5. QED
    BY <2>1, <2>2, <2>3, <2>4, QuietSteps DEF Next, Handler, Forward
<1>3. QED
  BY <1>1, <1>2, GateCorrect, PTL DEF Spec

-----------------------------------------------------------------------------
(* Refinement.                                                             *)

\* A write is, for the audience, a packet that is aired or nothing at all.
LEMMA WriteRefines ==
    ASSUME GateInv, NEW t \in Track, WriteVideo(t)
    PROVE  [Feed!Next]_(Feed!feed)
<1> USE DEF Feed!feed, shared
<1>0. /\ UNCHANGED <<activeSource, started, waitKeyframe>>
      /\ forwarder[t].pc = "write"
      /\ forwarder[t].queue \in KeyUnit \cup {<<"param">>, <<"delta">>}
      /\ SlipOf(t) /\ slips \in [Track -> Nat]
  BY DEF WriteVideo, GateInv, PacketsInHand, PacketOf, AtMostOneSlip, TypeOK
<1>1. CASE ~Accepted(t)
  <2>1. UNCHANGED <<slips, firstAired, lastCamera>>
    BY <1>1 DEF WriteVideo, Slips
  <2>2. QED BY <1>0, <2>1
<1>2. CASE Accepted(t)
  <2>1. /\ lastCamera' = Owner[t]
        /\ firstAired' = IF firstAired = "none" THEN Airs(t) ELSE firstAired
        /\ started /\ activeSource = Owner[t]
    BY <1>2 DEF WriteVideo, Accepted, Selected
  <2>2. CASE Head(forwarder[t].queue) # "delta"
    <3>1. Airs(t) = "key" /\ slips' = slips
      BY <2>2 DEF WriteVideo, Airs, Slips
    <3>2. Feed!AirKey(t)
      BY <1>0, <2>1, <3>1 DEF Feed!AirKey, Feed!Air
    <3>3. QED BY <3>2 DEF Feed!Next
  <2>3. CASE Head(forwarder[t].queue) = "delta" /\ ~waitKeyframe
    <3>1. Airs(t) = "delta" /\ slips' = slips
      BY <2>3 DEF WriteVideo, Airs, Slips
    <3>2. Feed!AirDelta(t)
      BY <1>0, <2>1, <2>3, <3>1 DEF Feed!AirDelta, Feed!Air
    <3>3. QED BY <3>2 DEF Feed!Next
  <2>4. CASE Head(forwarder[t].queue) = "delta" /\ waitKeyframe
    <3>1. Airs(t) = IF lastCamera \in {None, Owner[t]} THEN "slip" ELSE "break"
      BY <1>2, <2>4 DEF Airs, Slips
    <3>2. forwarder[t].queue = <<"delta">>
      BY <1>0, <2>4 DEF KeyUnit
    <3>3. slips[t] = 0
      BY <1>0, <2>4, <3>2 DEF SlipOf
    <3>4. slips' = [slips EXCEPT ![t] = 1]
      BY <1>0, <1>2, <2>4, <3>3 DEF WriteVideo, Slips
    <3>5. Feed!AirSlip(t)
      BY <1>0, <2>1, <2>4, <3>1, <3>3, <3>4 DEF Feed!AirSlip, Feed!Air
    <3>6. QED BY <3>5 DEF Feed!Next
  <2>5. QED BY <2>2, <2>3, <2>4
<1>3. QED BY <1>1, <1>2

\* Every step of the bridge is a step of the feed or leaves it alone.
LEMMA NextRefines == GateInv /\ [Next]_vars => [Feed!Next]_(Feed!feed)
<1> SUFFICES ASSUME GateInv, [Next]_vars PROVE [Feed!Next]_(Feed!feed)
  OBVIOUS
<1> USE DEF Feed!feed, shared, history
<1>1. ASSUME NEW c \in Source, Select(c) PROVE Feed!Next
  BY <1>1 DEF Select, Feed!Select, Feed!Next, Source
<1>2. CASE Stop
  <2>1. Feed!Stop
    BY <1>2 DEF Stop, Feed!Stop
  <2>2. QED BY <2>1 DEF Feed!Next
<1>3. ASSUME NEW t \in Track, SubscribeVideo(t) PROVE [Feed!Next]_(Feed!feed)
  <2>1. CASE activeSource = None
    <3>1. Owner[t] \in Camera
      BY BridgeAssumption
    <3>2. Feed!Adopt(Owner[t])
      BY <1>3, <2>1 DEF SubscribeVideo, Feed!Adopt
    <3>3. QED BY <3>1, <3>2 DEF Feed!Next
  <2>2. CASE activeSource # None
    BY <1>3, <2>2 DEF SubscribeVideo
  <2>3. QED BY <2>1, <2>2
<1>4. ASSUME NEW t \in Track, OpenGate(t) PROVE [Feed!Next]_(Feed!feed)
  <2>1. CASE activeSource = Owner[t]
    <3>1. Owner[t] \in Camera
      BY BridgeAssumption
    <3>2. Feed!Open(Owner[t])
      BY <1>4, <2>1 DEF OpenGate, Feed!Open
    <3>3. QED BY <3>1, <3>2 DEF Feed!Next
  <2>2. CASE activeSource # Owner[t]
    <3>1. waitKeyframe' = waitKeyframe
      BY <1>4, <2>2 DEF OpenGate, GateInv, TypeOK
    <3>2. QED BY <1>4, <3>1 DEF OpenGate
  <2>3. QED BY <2>1, <2>2
<1>5. ASSUME NEW t \in Track,
             \/ EnsureVideoOutput(t) \/ VideoPublishFails(t)
             \/ VideoTrackEnds(t) \/ (\E k \in Kind : ReadVideo(t, k))
      PROVE  UNCHANGED Feed!feed
  <2>1. ASSUME NEW k \in Kind, ReadVideo(t, k) PROVE UNCHANGED Feed!feed
    BY <2>1 DEF ReadVideo
  <2>2. CASE EnsureVideoOutput(t) \/ VideoPublishFails(t) \/ VideoTrackEnds(t)
    BY <2>2 DEF EnsureVideoOutput, VideoPublishFails, VideoTrackEnds
  <2>3. QED BY <1>5, <2>1, <2>2
<1>6. UNCHANGED gated \/ MuteVideo => UNCHANGED Feed!feed
  BY DEF gated, MuteVideo
<1>7. QED
  BY <1>1, <1>2, <1>3, <1>4, <1>5, <1>6, WriteRefines, QuietSteps
     DEF Next, Control, Handler, Subscription, Forward

\* The bridge keeps the promise of ProgramFeed to its audience.
THEOREM BridgeImplementsFeed == Spec => ImplementsFeed
<1>1. Init => Feed!Init
  BY DEF Init, Feed!Init
<1>2. QED
  BY <1>1, NextRefines, GateCorrect, PTL DEF Spec, ImplementsFeed, Feed!Spec
=============================================================================
