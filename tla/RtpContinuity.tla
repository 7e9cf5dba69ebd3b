--------------------------- MODULE RtpContinuity ---------------------------
(***************************************************************************)
(* The numbering of one program output (rewriteRTP, writeVideoPacket and   *)
(* forwardAudio of backend/cmd/api/bridge.go). Packets of several remote   *)
(* tracks become one RTP stream: each gets its sequence number and         *)
(* timestamp under b.mu and is written to the wire after the unlock, where *)
(* forwarders may overtake each other.                                     *)
(*                                                                         *)
(* A timestamp counts frames (units of defaultStep). The input of a track  *)
(* repeats a timestamp (packets of one frame) or advances it; it advances  *)
(* by more than one when packets were lost, or the camera skips frames.    *)
(***************************************************************************)
EXTENDS Integers, Sequences

CONSTANTS
    Track,      \* remote tracks, one forwarder each
    Sender,     \* participant identities (sourceID)
    Owner,      \* Owner[t]: the participant that publishes track t
    None,       \* the empty source id
    SeqMod,     \* sequence numbers are uint16: 2^16
    TsMod,      \* timestamps are uint32: 2^32, here in frames
    FirstTs,    \* timestamps a track may begin with
    MaxAdvance, \* bound: frames between two packets read from a track
    MaxNumbered \* bound: packets numbered

ASSUME RtpAssumption ==
    /\ Owner \in [Track -> Sender]
    /\ None \notin Sender
    /\ SeqMod \in Nat \ {0} /\ TsMod \in Nat \ {0}
    /\ FirstTs \subseteq 0..(TsMod - 1)
    /\ MaxAdvance \in Nat /\ MaxNumbered \in Nat

VARIABLES
    output,     \* "video" or "audio": whose continuity this is
    onAir,      \* b.started
    selected,   \* b.activeSource
    input,      \* per track, the timestamp last read
    state,      \* b.videoContinuity or b.audioContinuity
    hand,       \* packets numbered under b.mu and not yet on the wire
    wire,       \* packets in the order of track.WriteRTP
    skipped,    \* history: per track, frames since its last numbered packet
    last,       \* history: the track of the last numbered packet
    ideal       \* history: per numbered packet, how far its timestamp should
                \*   be from the first one, in unbounded arithmetic

feed    == <<output, onAir, selected>>
history == <<skipped, last, ideal>>
vars    == <<feed, input, state, hand, wire, history>>

-----------------------------------------------------------------------------
Fresh == [initialized |-> FALSE, sourceID |-> None, baseInput |-> 0,
          baseOutput |-> 0, lastOutput |-> 0, sequence |-> 0]

Init ==
    /\ output \in {"video", "audio"}
    /\ onAir = FALSE
    /\ selected = None
    /\ input \in [Track -> FirstTs]
    /\ state = Fresh
    /\ hand = {}
    /\ wire = <<>>
    /\ skipped = [t \in Track |-> 0]
    /\ last = None
    /\ ideal = <<>>

\* A start or switch of the Studio.
Select(s) ==
    /\ onAir' = TRUE
    /\ selected' = s
    /\ UNCHANGED <<output, input, state, hand, wire, history>>

Stop ==
    /\ onAir' = FALSE
    /\ UNCHANGED <<output, selected, input, state, hand, wire, history>>

\* Mutant: a new sender brings its own sequence numbers.
RebasedAnew(s, ts, seq) ==
    IF state.initialized /\ state.sourceID = s THEN state
    ELSE [initialized |-> TRUE, sourceID |-> s, baseInput |-> ts,
          baseOutput |-> IF state.initialized
                         THEN (state.lastOutput + 1) % TsMod ELSE ts,
          lastOutput |-> state.lastOutput, sequence |-> seq]

\* Mutant: a new sender keeps the input base of the sender before.
RebasedOutputOnly(s, ts, seq) ==
    IF state.initialized
    THEN [state EXCEPT !.sourceID = s,
                       !.baseOutput = IF state.sourceID = s THEN @
                                      ELSE (state.lastOutput + 1) % TsMod]
    ELSE [initialized |-> TRUE, sourceID |-> s, baseInput |-> ts,
          baseOutput |-> ts, lastOutput |-> 0, sequence |-> seq]

\* rewriteRTP, first part: the first packet of all keeps its place, and a new
\* sender is mapped to one step after the last output.
Rebased(s, ts, seq) ==
    IF state.initialized /\ state.sourceID = s THEN state
    ELSE [initialized |-> TRUE, sourceID |-> s, baseInput |-> ts,
          baseOutput |-> IF state.initialized
                         THEN (state.lastOutput + 1) % TsMod ELSE ts,
          lastOutput |-> state.lastOutput,
          sequence |-> IF state.initialized THEN state.sequence ELSE seq]

\* Mutant: the timestamp is not wrapped.
NumberedWide(s, ts, seq) ==
    LET r == Rebased(s, ts, seq) IN
    [r EXCEPT !.sequence = (@ + 1) % SeqMod,
              !.lastOutput = r.baseOutput + (ts - r.baseInput)]

\* rewriteRTP, second part: the state after a packet; its sequence and
\* lastOutput are what the packet carries.
Numbered(s, ts, seq) ==
    LET r == Rebased(s, ts, seq) IN
    [r EXCEPT !.sequence = (@ + 1) % SeqMod,
              !.lastOutput = (r.baseOutput + (ts - r.baseInput)) % TsMod]

\* writeVideoPacket checks the selection; forwardAudio takes every mix.
Accepts(t) == onAir /\ (output = "video" => selected = Owner[t])

\* The forwarder of t is not inside WriteRTP.
Reading(t) == \A p \in hand : p.track # t

\* A packet of t is numbered under b.mu, and is now with its forwarder.
Number(t, advance, seq) ==
    LET ts   == (input[t] + advance) % TsMod
        s    == Numbered(Owner[t], ts, seq)
        step == IF last = t THEN skipped[t] + advance ELSE 1
        due  == IF ideal = <<>> THEN 0 ELSE ideal[Len(ideal)] + step IN
    /\ Len(ideal) < MaxNumbered
    /\ input' = [input EXCEPT ![t] = ts]
    /\ state' = s
    /\ hand' = hand \cup {[track |-> t, nth |-> Len(ideal) + 1,
                           number |-> s.sequence, timestamp |-> s.lastOutput]}
    /\ ideal' = Append(ideal, due)
    /\ last' = t
    /\ skipped' = [skipped EXCEPT ![t] = 0]
    /\ UNCHANGED <<feed, wire>>

\* Mutant: WriteRTP runs in a goroutine of its own.
ReadAsync(t, advance, seq) == Accepts(t) /\ Number(t, advance, seq)

\* ReadRTP returns a packet that the output accepts.
Read(t, advance, seq) ==
    /\ Reading(t)
    /\ Accepts(t)
    /\ Number(t, advance, seq)

\* ReadRTP returns a packet, and the program is not on air or the track is not
\* selected.
Drop(t, advance) ==
    /\ Reading(t)
    /\ ~Accepts(t)
    /\ skipped[t] + advance <= MaxAdvance
    /\ input' = [input EXCEPT ![t] = (@ + advance) % TsMod]
    /\ skipped' = [skipped EXCEPT ![t] = @ + advance]
    /\ UNCHANGED <<feed, state, hand, wire, last, ideal>>

\* WriteRTP, outside b.mu.
Write(p) ==
    /\ wire' = Append(wire, p)
    /\ hand' = hand \ {p}
    /\ UNCHANGED <<feed, input, state, history>>

Next ==
    \/ \E s \in Sender : Select(s)
    \/ Stop
    \/ \E t \in Track, advance \in 0..MaxAdvance :
         \/ \E seq \in 0..(SeqMod - 1) : Read(t, advance, seq)
         \/ Drop(t, advance)
    \/ \E p \in hand : Write(p)

Spec == Init /\ [][Next]_vars

-----------------------------------------------------------------------------
(* Properties.                                                             *)

Packet == [track : Track, nth : 1..MaxNumbered, number : 0..(SeqMod - 1),
           timestamp : 0..(TsMod - 1)]

\* The type invariant; the widths of the wire format are part of it.
TypeOK ==
    /\ output \in {"video", "audio"}
    /\ onAir \in BOOLEAN
    /\ selected \in Sender \cup {None}
    /\ input \in [Track -> 0..(TsMod - 1)]
    /\ state \in [initialized : BOOLEAN, sourceID : Sender \cup {None},
                  baseInput : 0..(TsMod - 1), baseOutput : 0..(TsMod - 1),
                  lastOutput : 0..(TsMod - 1), sequence : 0..(SeqMod - 1)]
    /\ hand \subseteq Packet
    /\ wire \in Seq(Packet)
    /\ skipped \in [Track -> Nat]
    /\ last \in Track \cup {None}
    /\ ideal \in Seq(Nat)

Sent == {wire[i] : i \in DOMAIN wire}
Known == hand \cup Sent

\* No packet is numbered twice or lost between numbering and wire, whatever the
\* forwarders' order, and their numbers are consecutive modulo 2^16 across
\* senders: what the nth and the mth packet carry is m - n apart.
NumberedOnce ==
    /\ hand \cap Sent = {}
    /\ {p.nth : p \in Known} = 1..Len(ideal)
    /\ \A p, q \in Known : p.nth = q.nth => p = q
NumbersContiguous ==
    /\ NumberedOnce
    /\ \A p, q \in Known :
         (q.number - p.number) % SeqMod = (q.nth - p.nth) % SeqMod

\* The packets of one track reach the wire in the order of their numbers,
\* although WriteRTP is called without the lock.
TrackOrder ==
    \A i, j \in DOMAIN wire :
        (i < j /\ wire[i].track = wire[j].track) => wire[i].nth < wire[j].nth

\* Why TrackOrder holds: a forwarder has one packet in hand at most, and its
\* number is larger than that of any packet of the track on the wire. With the
\* types and NumberedOnce it is inductive.
HandsInOrder ==
    /\ \A p, q \in hand : p.track = q.track => p = q
    /\ \A p \in hand, i \in DOMAIN wire :
         wire[i].track = p.track => wire[i].nth < p.nth

\* Timestamps go on where the last output was, across every cut and wrap: two
\* packets are as far apart as the frames of their tracks say, and a change of
\* track costs one step.
TimestampsContinuous ==
    \A p, q \in Known :
        (q.timestamp - p.timestamp) % TsMod = (ideal[q.nth] - ideal[p.nth]) % TsMod

\* README.md:95 and webrtc_concepts.md:81: the bridge rewrites timestamps to
\* preserve continuity with the previous output. A camera that reconnects, or a
\* Studio that republishes its mix, keeps its identity and has a new clock.
ClockSurvivesReconnect == TimestampsContinuous
=============================================================================
