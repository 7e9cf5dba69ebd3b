---------------------------- MODULE ProgramFeed ----------------------------
(***************************************************************************)
(* What the program bridge promises the audience of D1, with no locks, no  *)
(* buffers and no goroutines: one camera at a time is on air, and every    *)
(* selection closes a gate that only a keyframe of the selected camera     *)
(* opens. The promise has one exception, as small as it can be stated: a   *)
(* track may air a single delta packet through the closed gate, the one it *)
(* had fetched before the selection.                                       *)
(***************************************************************************)
EXTENDS Naturals

CONSTANTS Camera, Track, Owner, None

VARIABLES
    source,   \* the selected camera, or None
    onAir,    \* between a start or switch and the next stop
    gate,     \* "closed" from a selection to its keyframe, then "open"
    slips,    \* per track, delta packets aired through the closed gate
    first,    \* what was aired first since the selection
    last      \* the camera of the last packet aired

feed == <<source, onAir, gate, slips, first, last>>

Init ==
    /\ source = None
    /\ onAir = FALSE
    /\ gate = "closed"
    /\ slips = [t \in Track |-> 0]
    /\ first = "none"
    /\ last = None

\* A start or switch of the Studio.
Select(c) ==
    /\ source' = c
    /\ onAir' = TRUE
    /\ gate' = "closed"
    /\ slips' = [t \in Track |-> 0]
    /\ first' = "none"
    /\ UNCHANGED last

Stop == onAir' = FALSE /\ UNCHANGED <<source, gate, slips, first, last>>

\* The first camera of the room is the source until the Studio selects one.
Adopt(c) ==
    /\ source = None
    /\ source' = c
    /\ UNCHANGED <<onAir, gate, slips, first, last>>

\* The selected camera has delivered a keyframe.
Open(c) ==
    /\ source = c
    /\ gate' = "open"
    /\ UNCHANGED <<source, onAir, slips, first, last>>

\* A packet of track t goes out; k is what the summary calls it.
Air(t, k) ==
    /\ onAir /\ source = Owner[t]
    /\ first' = IF first = "none" THEN k ELSE first
    /\ last' = Owner[t]
    /\ UNCHANGED <<source, onAir, gate>>

AirKey(t) == Air(t, "key") /\ UNCHANGED slips

AirDelta(t) == gate = "open" /\ Air(t, "delta") /\ UNCHANGED slips

\* A slip is a "break" when the audience last saw another camera.
AirSlip(t) ==
    /\ gate = "closed"
    /\ slips[t] = 0
    /\ slips' = [slips EXCEPT ![t] = 1]
    /\ Air(t, IF last \in {None, Owner[t]} THEN "slip" ELSE "break")

Next ==
    \/ \E c \in Camera \cup {None} : Select(c)
    \/ Stop
    \/ \E c \in Camera : Adopt(c) \/ Open(c)
    \/ \E t \in Track : AirKey(t) \/ AirDelta(t) \/ AirSlip(t)

Spec == Init /\ [][Next]_feed
=============================================================================
