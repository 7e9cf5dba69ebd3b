---------------------------- MODULE D1TestProofs ----------------------------
(***************************************************************************)
(* Theorems about D1Test, for every number of starts and presses: the type *)
(* invariant, that nothing is open beside what the page holds and nothing  *)
(* of a stopped test comes back, and that the screen is true to it.        *)
(***************************************************************************)
EXTENDS D1Test, FiniteSetTheorems, TLAPS

\* The type invariant, in the groups that one lemma each is about.
PageTypes ==
    /\ mounted \in BOOLEAN
    /\ status \in {"idle", "connecting", "publishing", "error"}
    /\ returnStatus \in {"idle", "connecting", "playing", "error"}
    /\ step \in [Start -> {"none", "import", "asking", "done"}]
    /\ silent \in BOOLEAN /\ soundShown \in BOOLEAN
    /\ wanted \in BOOLEAN /\ presses \in 0..MaxPresses
    /\ overlaps \subseteq Overlap

SessionTypes ==
    /\ adaptorRef \in 0..MaxStarts
    /\ open \subseteq Start /\ confirmed \subseteq open
    /\ closing \subseteq Start \ open
    /\ context \in 0..MaxStarts /\ contexts \subseteq Start
    /\ mixing \subseteq Mix /\ tone \in 0..MaxStarts

PlayerTypes ==
    /\ made \in Nat /\ playerRef \in 0..made /\ players \subseteq 1..made

\* The starts whose first publish the server has yet to confirm: a player is made for
\* each of them, and one with every press besides.
Unconfirmed == {i \in Start : step[i] # "done"} \cup (open \ confirmed)
Counted == made + Cardinality(Unconfirmed) <= MaxStarts + presses

\* An adaptor is that of a start that got so far, and its mixer of one that is open.
Made ==
    /\ \A i \in open \cup closing : step[i] = "done"
    /\ \A m \in mixing : m.adaptor \in open

TestInv == PageTypes /\ SessionTypes /\ PlayerTypes /\ Counted /\ Made

\* While one start at most awaits the SDK or the camera, what is open is in the page's
\* refs, and nothing is open meanwhile.
Underway == {i \in Start : step[i] \in {"import", "asking"}}

OneUnderway ==
    /\ \A i, j \in Underway : i = j
    /\ Asking \subseteq {adaptorRef}
    /\ Underway # {} => open = {}

Refs ==
    /\ OneUnderway
    /\ open \subseteq {adaptorRef} /\ contexts \subseteq {context}
    /\ \A m \in mixing : m.context = context

\* So is the player, which an adaptor has none of before its publish is confirmed.
Player1 ==
    /\ players \subseteq {playerRef}
    /\ Underway # {} \/ open # confirmed => players = {}

\* A test that was stopped holds nothing, and only a page that was closed is still to
\* receive its SDK, which it drops.
Over ==
    ~wanted => /\ open = {} /\ players = {} /\ contexts = {} /\ tone = 0
               /\ Asking = {} /\ (Importing # {} => ~mounted)

RefsInv   == Unless({"startInImport", "stopInPrompt"}) => Refs
PlayerInv == Unless({"startInImport", "stopInPrompt", "publishedAgain"}) => Player1
OverInv   ==
    Unless({"stopInImport", "startInImport", "stopInPrompt", "publishedAgain"}) => Over

\* Where nothing ends a session but its Stop, the page is busy as long as there is one.
Occupied ==
    /\ OneUnderway /\ open \subseteq {adaptorRef}
    /\ open # {} \/ Underway # {} => Busy

OccupiedInv ==
    mounted /\ Unless({"ended", "stopInImport", "stopInPrompt", "closedLate"}) => Occupied

HoldInv   == RefsInv /\ PlayerInv /\ OverInv
ScreenInv == OccupiedInv /\ ReturnIsPlayed /\ SoundIsShown
IInv      == TestInv /\ HoldInv /\ ScreenInv

\* There are finitely many starts.
LEMMA UnconfirmedFinite ==
    ASSUME SessionTypes
    PROVE  IsFiniteSet(Unconfirmed) /\ Cardinality(Unconfirmed) \in Nat
  <1>1. IsFiniteSet(Start)
    BY FS_Interval, TestAssumption DEF Start
  <1>2. Unconfirmed \subseteq Start
    BY DEF Unconfirmed, SessionTypes
  <1>3. QED
    BY <1>1, <1>2, FS_Subset, FS_CardinalityType

\* A start that is confirmed leaves the unconfirmed, and none ever comes to them.
LEMMA UnconfirmedFewer ==
    ASSUME Unconfirmed' \subseteq Unconfirmed, SessionTypes
    PROVE  /\ Cardinality(Unconfirmed) \in Nat /\ Cardinality(Unconfirmed') \in Nat
           /\ Cardinality(Unconfirmed') <= Cardinality(Unconfirmed)
           /\ Unconfirmed' # Unconfirmed
              => Cardinality(Unconfirmed') + 1 <= Cardinality(Unconfirmed)
  <1>1. IsFiniteSet(Unconfirmed)
    BY UnconfirmedFinite
  <1>2. /\ IsFiniteSet(Unconfirmed')
        /\ Cardinality(Unconfirmed') <= Cardinality(Unconfirmed)
        /\ Cardinality(Unconfirmed) = Cardinality(Unconfirmed')
           => Unconfirmed = Unconfirmed'
    BY <1>1, FS_Subset
  <1>3. Cardinality(Unconfirmed) \in Nat /\ Cardinality(Unconfirmed') \in Nat
    BY <1>1, <1>2, FS_CardinalityType
  <1>4. QED
    BY <1>2, <1>3

\* Every step keeps the types and the count of what was made.
LEMMA TestNext ==
    ASSUME TestInv, Next
    PROVE  TestInv'
  <1> USE TestAssumption DEF TestInv
  <1>1. ASSUME Stop PROVE TestInv'
    <2>1. PageTypes'
      <3>1. /\ status' \in {"idle", "connecting", "publishing", "error"}
            /\ returnStatus' \in {"idle", "connecting", "playing", "error"}
            /\ step' = step /\ presses' \in 0..MaxPresses /\ overlaps' \subseteq Overlap
        BY <1>1 DEF Stop, StopInPrompt, Asking, StopPublishing, PageTypes, Note, If,
           Overlap, Press
      <3>2. soundShown' \in BOOLEAN
        BY <1>1 DEF Stop, StopInPrompt, Asking, StopPublishing, PageTypes
      <3>3. mounted' \in BOOLEAN /\ silent' \in BOOLEAN /\ wanted' \in BOOLEAN
        BY <1>1 DEF Stop, StopInPrompt, Asking, StopPublishing, PageTypes
      <3>4. QED
        BY <3>1, <3>2, <3>3 DEF PageTypes
    <2>2. SessionTypes'
      BY <1>1 DEF Stop, StopInPrompt, Asking, StopPublishing, CloseSession,
         SessionTypes, Start, Mix, Made, PageTypes, page
    <2>3. PlayerTypes'
      BY <1>1 DEF Stop, StopInPrompt, Asking, StopPublishing, CloseSession,
         PlayerTypes, page
    <2>4. Made'
      BY <1>1 DEF Stop, StopInPrompt, Asking, StopPublishing, CloseSession, Made,
         SessionTypes, PageTypes, Mix, page
    <2>5. Counted'
      <3>1. Unconfirmed' \subseteq Unconfirmed
        BY <1>1 DEF Stop, StopInPrompt, Asking, StopPublishing, CloseSession,
           Unconfirmed, SessionTypes, PageTypes, Made, page
      <3>2. made' = made /\ presses' \in Nat /\ presses' >= presses
        BY <1>1 DEF Stop, StopInPrompt, Asking, StopPublishing, CloseSession, Press,
           PageTypes, page
      <3>3. QED
        BY <3>1, <3>2, UnconfirmedFewer DEF Counted, PlayerTypes, PageTypes
    <2>6. QED
      BY <2>1, <2>2, <2>3, <2>4, <2>5
  <1>2. ASSUME Unmount PROVE TestInv'
    <2>1. PageTypes'
      BY <1>2 DEF Unmount, StopInPrompt, Asking, Note, If, StopPublishing,
         CloseSession, PageTypes, Overlap, page
    <2>2. SessionTypes'
      BY <1>2 DEF Unmount, StopInPrompt, Asking, Note, If, StopPublishing,
         CloseSession, SessionTypes, Start, Mix, Made, PageTypes, page
    <2>3. PlayerTypes'
      BY <1>2 DEF Unmount, StopInPrompt, Asking, Note, If, StopPublishing,
         CloseSession, PlayerTypes, page
    <2>4. Made'
      BY <1>2 DEF Unmount, StopInPrompt, Asking, Note, If, StopPublishing,
         CloseSession, Made, SessionTypes, PageTypes, Mix, page
    <2>5. Counted'
      <3>1. Unconfirmed' \subseteq Unconfirmed
        BY <1>2 DEF Unmount, StopInPrompt, Asking, Note, If, StopPublishing,
           CloseSession, Unconfirmed, SessionTypes, PageTypes, Made, page
      <3>2. made' = made /\ presses' \in Nat /\ presses' >= presses
        BY <1>2 DEF Unmount, StopInPrompt, Asking, Note, If, StopPublishing,
           CloseSession, PageTypes, page
      <3>3. QED
        BY <3>1, <3>2, UnconfirmedFewer DEF Counted, PlayerTypes, PageTypes
    <2>6. QED
      BY <2>1, <2>2, <2>3, <2>4, <2>5
  <1>3. ASSUME ToggleReturnSound PROVE TestInv'
    <2>1. PageTypes'
      BY <1>3 DEF ToggleReturnSound, PageTypes, Overlap, Press, page, refs, session,
         audio
    <2>2. SessionTypes'
      BY <1>3 DEF ToggleReturnSound, SessionTypes, Start, Mix, Made, PageTypes,
         page, refs, session, audio
    <2>3. PlayerTypes'
      BY <1>3 DEF ToggleReturnSound, PlayerTypes, page, refs, session, audio
    <2>4. Made'
      BY <1>3 DEF ToggleReturnSound, Made, SessionTypes, PageTypes, Mix, page, refs,
         session, audio
    <2>5. Counted'
      <3>1. Unconfirmed' \subseteq Unconfirmed
        BY <1>3 DEF ToggleReturnSound, Unconfirmed, SessionTypes, PageTypes, Made,
           page, refs, session, audio
      <3>2. made' = made /\ presses' \in Nat /\ presses' >= presses
        BY <1>3 DEF ToggleReturnSound, Press, PageTypes, page, refs, session, audio
      <3>3. QED
        BY <3>1, <3>2, UnconfirmedFewer DEF Counted, PlayerTypes, PageTypes
    <2>6. QED
      BY <2>1, <2>2, <2>3, <2>4, <2>5
  <1>4. ASSUME NEW i \in Start, StartPublishing(i) PROVE TestInv'
    <2>1. PageTypes'
      BY <1>4 DEF StartPublishing, StopInPrompt, Asking, CloseSession, PageTypes,
         Note, If, Overlap, page, sound
    <2>2. SessionTypes'
      BY <1>4 DEF StartPublishing, StopInPrompt, Asking, CloseSession, SessionTypes,
         Start, Mix, Made, PageTypes, page, sound
    <2>3. PlayerTypes'
      BY <1>4 DEF StartPublishing, StopInPrompt, Asking, CloseSession, PlayerTypes,
         page, sound
    <2>4. Made'
      BY <1>4 DEF StartPublishing, StopInPrompt, Asking, CloseSession, Made,
         SessionTypes, PageTypes, Mix, page, sound
    <2>5. Counted'
      <3>1. Unconfirmed' \subseteq Unconfirmed
        BY <1>4 DEF StartPublishing, StopInPrompt, Asking, CloseSession,
           Unconfirmed, SessionTypes, PageTypes, Made, page, sound
      <3>2. made' = made /\ presses' \in Nat /\ presses' >= presses
        BY <1>4 DEF StartPublishing, StopInPrompt, Asking, CloseSession, PageTypes,
           page, sound
      <3>3. QED
        BY <3>1, <3>2, UnconfirmedFewer DEF Counted, PlayerTypes, PageTypes
    <2>6. QED
      BY <2>1, <2>2, <2>3, <2>4, <2>5
  <1>5. ASSUME NEW i \in Start, Imported(i) PROVE TestInv'
    <2>1. PageTypes'
      BY <1>5 DEF Imported, session, PageTypes, Overlap, page, audio, sound, history
    <2>2. SessionTypes'
      <3>1. adaptorRef' \in 0..MaxStarts
        BY <1>5 DEF Imported, session, SessionTypes, Start
      <3>2. /\ open' \subseteq Start /\ open \subseteq open'
            /\ (open' \subseteq open \cup {i})
            /\ i \notin closing
        BY <1>5 DEF Imported, session, SessionTypes, Made
      <3>3. QED
        BY <1>5, <3>1, <3>2 DEF Imported, session, SessionTypes, audio
    <2>3. PlayerTypes'
      BY <1>5 DEF Imported, session, PlayerTypes, page, audio, sound, history
    <2>4. Made'
      BY <1>5 DEF Imported, session, Made, SessionTypes, PageTypes, Mix, page,
         audio, sound, history
    <2>5. Counted'
      <3>1. Unconfirmed' \subseteq Unconfirmed
        BY <1>5 DEF Imported, session, Unconfirmed, SessionTypes, PageTypes, Made,
           page, audio, sound, history
      <3>2. made' = made /\ presses' \in Nat /\ presses' >= presses
        BY <1>5 DEF Imported, session, PageTypes, page, audio, sound, history
      <3>3. QED
        BY <3>1, <3>2, UnconfirmedFewer DEF Counted, PlayerTypes, PageTypes
    <2>6. QED
      BY <2>1, <2>2, <2>3, <2>4, <2>5
  <1>6. ASSUME NEW i \in Start, ImportFails(i) PROVE TestInv'
    <2>1. PageTypes'
      BY <1>6 DEF ImportFails, PageTypes, Overlap, Press, page, refs, session,
         audio, sound
    <2>2. SessionTypes'
      BY <1>6 DEF ImportFails, SessionTypes, Start, Mix, Made, PageTypes, page,
         refs, session, audio, sound
    <2>3. PlayerTypes'
      BY <1>6 DEF ImportFails, PlayerTypes, page, refs, session, audio, sound
    <2>4. Made'
      BY <1>6 DEF ImportFails, Made, SessionTypes, PageTypes, Mix, page, refs,
         session, audio, sound
    <2>5. Counted'
      <3>1. Unconfirmed' \subseteq Unconfirmed
        BY <1>6 DEF ImportFails, Unconfirmed, SessionTypes, PageTypes, Made, page,
           refs, session, audio, sound
      <3>2. made' = made /\ presses' \in Nat /\ presses' >= presses
        BY <1>6 DEF ImportFails, Press, PageTypes, page, refs, session, audio, sound
      <3>3. QED
        BY <3>1, <3>2, UnconfirmedFewer DEF Counted, PlayerTypes, PageTypes
    <2>6. QED
      BY <2>1, <2>2, <2>3, <2>4, <2>5
  <1>7. ASSUME NEW i \in Start, CameraGranted(i) PROVE TestInv'
    <2>1. PageTypes'
      BY <1>7 DEF CameraGranted, history, PageTypes, Overlap, page, refs, audio,
         sound
    <2>2. SessionTypes'
      <3>1. i \notin closing
        BY <1>7 DEF CameraGranted, Made
      <3>2. QED
        BY <1>7, <3>1 DEF CameraGranted, SessionTypes, audio, refs
    <2>3. PlayerTypes'
      BY <1>7 DEF CameraGranted, history, PlayerTypes, page, refs, audio, sound
    <2>4. Made'
      BY <1>7 DEF CameraGranted, history, Made, SessionTypes, PageTypes, Mix, page,
         refs, audio, sound
    <2>5. Counted'
      <3>1. Unconfirmed' \subseteq Unconfirmed
        BY <1>7 DEF CameraGranted, history, Unconfirmed, SessionTypes, PageTypes,
           Made, page, refs, audio, sound
      <3>2. made' = made /\ presses' \in Nat /\ presses' >= presses
        BY <1>7 DEF CameraGranted, history, PageTypes, page, refs, audio, sound
      <3>3. QED
        BY <3>1, <3>2, UnconfirmedFewer DEF Counted, PlayerTypes, PageTypes
    <2>6. QED
      BY <2>1, <2>2, <2>3, <2>4, <2>5
  <1>8. ASSUME NEW i \in Start, CameraRefused(i) PROVE TestInv'
    <2>1. PageTypes'
      BY <1>8 DEF CameraRefused, PageTypes, Overlap, Press, page, refs, session,
         audio, sound
    <2>2. SessionTypes'
      BY <1>8 DEF CameraRefused, SessionTypes, Start, Mix, Made, PageTypes, page,
         refs, session, audio, sound
    <2>3. PlayerTypes'
      BY <1>8 DEF CameraRefused, PlayerTypes, page, refs, session, audio, sound
    <2>4. Made'
      BY <1>8 DEF CameraRefused, Made, SessionTypes, PageTypes, Mix, page, refs,
         session, audio, sound
    <2>5. Counted'
      <3>1. Unconfirmed' \subseteq Unconfirmed
        BY <1>8 DEF CameraRefused, Unconfirmed, SessionTypes, PageTypes, Made, page,
           refs, session, audio, sound
      <3>2. made' = made /\ presses' \in Nat /\ presses' >= presses
        BY <1>8 DEF CameraRefused, Press, PageTypes, page, refs, session, audio,
           sound
      <3>3. QED
        BY <3>1, <3>2, UnconfirmedFewer DEF Counted, PlayerTypes, PageTypes
    <2>6. QED
      BY <2>1, <2>2, <2>3, <2>4, <2>5
  <1>9. ASSUME NEW i \in Start, PublishStarted(i) PROVE TestInv'
    <2>1. PageTypes'
      BY <1>9 DEF PublishStarted, PageTypes, Note, If, Overlap, Press, page, sound
    <2>2. SessionTypes'
      BY <1>9 DEF PublishStarted, SessionTypes, Start, Mix, Made, PageTypes, page,
         sound
    <2>3. PlayerTypes'
      BY <1>9 DEF PublishStarted, PlayerTypes, page, sound
    <2>4. Made'
      BY <1>9 DEF PublishStarted, Made, SessionTypes, PageTypes, Mix, page, sound
    <2>5. Counted'
      <3>1. Unconfirmed' = Unconfirmed \ {i} /\ (i \notin confirmed => i \in Unconfirmed)
        BY <1>9 DEF PublishStarted, Unconfirmed, SessionTypes, Made
      <3>2. made' = made + 1
            /\ presses' \in Nat
            /\ IF i \in confirmed THEN presses' = presses + 1 ELSE presses' = presses
        BY <1>9 DEF PublishStarted, Press, PageTypes
      <3>3. i \notin confirmed => Unconfirmed' # Unconfirmed
        BY <3>1
      <3>4. QED
        BY <3>1, <3>2, <3>3, UnconfirmedFewer DEF Counted, PlayerTypes, PageTypes
    <2>6. QED
      BY <2>1, <2>2, <2>3, <2>4, <2>5
  <1>10. ASSUME NEW i \in Start, PublishEnds(i) PROVE TestInv'
    <2>1. PageTypes'
      BY <1>10 DEF PublishEnds, PageTypes, Note, Overlap, Press, page, refs,
         session, audio, sound
    <2>2. SessionTypes'
      BY <1>10 DEF PublishEnds, SessionTypes, Start, Mix, Made, PageTypes, page,
         refs, session, audio, sound
    <2>3. PlayerTypes'
      BY <1>10 DEF PublishEnds, PlayerTypes, page, refs, session, audio, sound
    <2>4. Made'
      BY <1>10 DEF PublishEnds, Made, SessionTypes, PageTypes, Mix, page, refs,
         session, audio, sound
    <2>5. Counted'
      <3>1. Unconfirmed' \subseteq Unconfirmed
        BY <1>10 DEF PublishEnds, Unconfirmed, SessionTypes, PageTypes, Made, page,
           refs, session, audio, sound
      <3>2. made' = made /\ presses' \in Nat /\ presses' >= presses
        BY <1>10 DEF PublishEnds, Press, PageTypes, page, refs, session, audio,
           sound
      <3>3. QED
        BY <3>1, <3>2, UnconfirmedFewer DEF Counted, PlayerTypes, PageTypes
    <2>6. QED
      BY <2>1, <2>2, <2>3, <2>4, <2>5
  <1>11. ASSUME NEW i \in Start, Closed(i) PROVE TestInv'
    <2>1. PageTypes'
      BY <1>11 DEF Closed, PageTypes, Note, If, Overlap, page, refs, audio, sound
    <2>2. SessionTypes'
      BY <1>11 DEF Closed, SessionTypes, Start, Mix, Made, PageTypes, page, refs,
         audio, sound
    <2>3. PlayerTypes'
      BY <1>11 DEF Closed, PlayerTypes, page, refs, audio, sound
    <2>4. Made'
      BY <1>11 DEF Closed, Made, SessionTypes, PageTypes, Mix, page, refs, audio,
         sound
    <2>5. Counted'
      <3>1. Unconfirmed' \subseteq Unconfirmed
        BY <1>11 DEF Closed, Unconfirmed, SessionTypes, PageTypes, Made, page, refs,
           audio, sound
      <3>2. made' = made /\ presses' \in Nat /\ presses' >= presses
        BY <1>11 DEF Closed, PageTypes, page, refs, audio, sound
      <3>3. QED
        BY <3>1, <3>2, UnconfirmedFewer DEF Counted, PlayerTypes, PageTypes
    <2>6. QED
      BY <2>1, <2>2, <2>3, <2>4, <2>5
  <1>12. ASSUME NEW m \in mixing, Mixed(m) PROVE TestInv'
    <2>1. PageTypes'
      BY <1>12 DEF Mixed, PageTypes, Overlap, page, refs, session, sound, history
    <2>2. SessionTypes'
      BY <1>12 DEF Mixed, SessionTypes, Start, Mix, Made, PageTypes, page, refs,
         session, sound, history
    <2>3. PlayerTypes'
      BY <1>12 DEF Mixed, PlayerTypes, page, refs, session, sound, history
    <2>4. Made'
      BY <1>12 DEF Mixed, Made, SessionTypes, PageTypes, Mix, page, refs, session,
         sound, history
    <2>5. Counted'
      <3>1. Unconfirmed' \subseteq Unconfirmed
        BY <1>12 DEF Mixed, Unconfirmed, SessionTypes, PageTypes, Made, page, refs,
           session, sound, history
      <3>2. made' = made /\ presses' \in Nat /\ presses' >= presses
        BY <1>12 DEF Mixed, PageTypes, page, refs, session, sound, history
      <3>3. QED
        BY <3>1, <3>2, UnconfirmedFewer DEF Counted, PlayerTypes, PageTypes
    <2>6. QED
      BY <2>1, <2>2, <2>3, <2>4, <2>5
  <1>13. ASSUME NEW p \in players, PlayStarted(p) PROVE TestInv'
    <2>1. PageTypes'
      BY <1>13 DEF PlayStarted, PageTypes, Overlap, page, refs, session, audio,
         sound, history
    <2>2. SessionTypes'
      BY <1>13 DEF PlayStarted, SessionTypes, Start, Mix, Made, PageTypes, page,
         refs, session, audio, sound, history
    <2>3. PlayerTypes'
      BY <1>13 DEF PlayStarted, PlayerTypes, page, refs, session, audio, sound,
         history
    <2>4. Made'
      BY <1>13 DEF PlayStarted, Made, SessionTypes, PageTypes, Mix, page, refs,
         session, audio, sound, history
    <2>5. Counted'
      <3>1. Unconfirmed' \subseteq Unconfirmed
        BY <1>13 DEF PlayStarted, Unconfirmed, SessionTypes, PageTypes, Made, page,
           refs, session, audio, sound, history
      <3>2. made' = made /\ presses' \in Nat /\ presses' >= presses
        BY <1>13 DEF PlayStarted, PageTypes, page, refs, session, audio, sound,
           history
      <3>3. QED
        BY <3>1, <3>2, UnconfirmedFewer DEF Counted, PlayerTypes, PageTypes
    <2>6. QED
      BY <2>1, <2>2, <2>3, <2>4, <2>5
  <1>14. ASSUME NEW p \in players, PlayEnds(p) PROVE TestInv'
    <2>1. PageTypes'
      BY <1>14 DEF PlayEnds, PageTypes, Overlap, Press, page, refs, session, audio,
         sound
    <2>2. SessionTypes'
      BY <1>14 DEF PlayEnds, SessionTypes, Start, Mix, Made, PageTypes, page, refs,
         session, audio, sound
    <2>3. PlayerTypes'
      BY <1>14 DEF PlayEnds, PlayerTypes, page, refs, session, audio, sound
    <2>4. Made'
      BY <1>14 DEF PlayEnds, Made, SessionTypes, PageTypes, Mix, page, refs,
         session, audio, sound
    <2>5. Counted'
      <3>1. Unconfirmed' \subseteq Unconfirmed
        BY <1>14 DEF PlayEnds, Unconfirmed, SessionTypes, PageTypes, Made, page,
           refs, session, audio, sound
      <3>2. made' = made /\ presses' \in Nat /\ presses' >= presses
        BY <1>14 DEF PlayEnds, Press, PageTypes, page, refs, session, audio, sound
      <3>3. QED
        BY <3>1, <3>2, UnconfirmedFewer DEF Counted, PlayerTypes, PageTypes
    <2>6. QED
      BY <2>1, <2>2, <2>3, <2>4, <2>5
  <1>15. ASSUME NEW p \in players, PlayerLost(p) PROVE TestInv'
    <2>1. PageTypes'
      BY <1>15 DEF PlayerLost, PageTypes, Note, Overlap, Press, page, refs, audio,
         sound
    <2>2. SessionTypes'
      BY <1>15 DEF PlayerLost, SessionTypes, Start, Mix, Made, PageTypes, page,
         refs, audio, sound
    <2>3. PlayerTypes'
      BY <1>15 DEF PlayerLost, PlayerTypes, page, refs, audio, sound
    <2>4. Made'
      BY <1>15 DEF PlayerLost, Made, SessionTypes, PageTypes, Mix, page, refs,
         audio, sound
    <2>5. Counted'
      <3>1. Unconfirmed' \subseteq Unconfirmed
        BY <1>15 DEF PlayerLost, Unconfirmed, SessionTypes, PageTypes, Made, page,
           refs, audio, sound
      <3>2. made' = made /\ presses' \in Nat /\ presses' >= presses
        BY <1>15 DEF PlayerLost, Press, PageTypes, page, refs, audio, sound
      <3>3. QED
        BY <3>1, <3>2, UnconfirmedFewer DEF Counted, PlayerTypes, PageTypes
    <2>6. QED
      BY <2>1, <2>2, <2>3, <2>4, <2>5
  <1>16. QED
    BY <1>1, <1>2, <1>3, <1>4, <1>5, <1>6, <1>7, <1>8, <1>9, <1>10, <1>11, <1>12,
       <1>13, <1>14, <1>15 DEF Next

\* What has overlapped stays so, and a page that was closed stays closed.
LEMMA Grows ==
    ASSUME TestInv, Next
    PROVE  overlaps \subseteq overlaps' /\ (mounted' => mounted)
  <1>1. ASSUME Stop PROVE overlaps \subseteq overlaps' /\ (mounted' => mounted)
    BY <1>1 DEF Stop, StopInPrompt, Asking, StopPublishing, CloseSession, Note
  <1>2. ASSUME Unmount PROVE overlaps \subseteq overlaps' /\ (mounted' => mounted)
    BY <1>2 DEF Unmount, StopInPrompt, Asking, Note, If, StopPublishing,
       CloseSession
  <1>3. ASSUME ToggleReturnSound
        PROVE  overlaps \subseteq overlaps' /\ (mounted' => mounted)
    BY <1>3 DEF ToggleReturnSound, page, refs, session, audio
  <1>4. ASSUME NEW i \in Start, StartPublishing(i)
        PROVE  overlaps \subseteq overlaps' /\ (mounted' => mounted)
    BY <1>4 DEF StartPublishing, StopInPrompt, Asking, CloseSession, Note, sound
  <1>5. ASSUME NEW i \in Start, Imported(i)
        PROVE  overlaps \subseteq overlaps' /\ (mounted' => mounted)
    BY <1>5 DEF Imported, session, page, audio, sound, history
  <1>6. ASSUME NEW i \in Start, ImportFails(i)
        PROVE  overlaps \subseteq overlaps' /\ (mounted' => mounted)
    BY <1>6 DEF ImportFails, refs, session, audio, sound
  <1>7. ASSUME NEW i \in Start, CameraGranted(i)
        PROVE  overlaps \subseteq overlaps' /\ (mounted' => mounted)
    BY <1>7 DEF CameraGranted, history, page, refs, audio, sound
  <1>8. ASSUME NEW i \in Start, CameraRefused(i)
        PROVE  overlaps \subseteq overlaps' /\ (mounted' => mounted)
    BY <1>8 DEF CameraRefused, refs, session, audio, sound
  <1>9. ASSUME NEW i \in Start, PublishStarted(i)
        PROVE  overlaps \subseteq overlaps' /\ (mounted' => mounted)
    BY <1>9 DEF PublishStarted, Note, sound
  <1>10. ASSUME NEW i \in Start, PublishEnds(i)
        PROVE  overlaps \subseteq overlaps' /\ (mounted' => mounted)
    BY <1>10 DEF PublishEnds, Note, refs, session, audio, sound
  <1>11. ASSUME NEW i \in Start, Closed(i)
        PROVE  overlaps \subseteq overlaps' /\ (mounted' => mounted)
    BY <1>11 DEF Closed, Note, refs, audio, sound
  <1>12. ASSUME NEW m \in mixing, Mixed(m)
         PROVE  overlaps \subseteq overlaps' /\ (mounted' => mounted)
    BY <1>12 DEF Mixed, page, refs, session, sound, history
  <1>13. ASSUME NEW p \in players, PlayStarted(p)
         PROVE  overlaps \subseteq overlaps' /\ (mounted' => mounted)
    BY <1>13 DEF PlayStarted, refs, session, audio, sound, history
  <1>14. ASSUME NEW p \in players, PlayEnds(p)
         PROVE  overlaps \subseteq overlaps' /\ (mounted' => mounted)
    BY <1>14 DEF PlayEnds, refs, session, audio, sound
  <1>15. ASSUME NEW p \in players, PlayerLost(p)
         PROVE  overlaps \subseteq overlaps' /\ (mounted' => mounted)
    BY <1>15 DEF PlayerLost, Note, page, refs, audio, sound
  <1>16. QED
    BY <1>1, <1>2, <1>3, <1>4, <1>5, <1>6, <1>7, <1>8, <1>9, <1>10, <1>11, <1>12,
       <1>13, <1>14, <1>15 DEF Next

\* The one start that is under way is the one that is done.
LEMMA StartEnds ==
    ASSUME TestInv, OneUnderway, NEW i \in Underway, step' = [step EXCEPT ![i] = "done"]
    PROVE  Underway' = {} /\ Asking' = {} /\ Importing' = {} /\ open = {}
  BY DEF OneUnderway, Underway, Asking, Importing, TestInv, PageTypes

\* Every step keeps the sessions among those the page holds or is about to hold.
LEMMA RefsStep ==
    ASSUME TestInv, Refs, Next, Unless({"startInImport", "stopInPrompt"})'
    PROVE  Refs'
  <1> USE TestAssumption
  <1>1. ASSUME Stop PROVE Refs'
    BY <1>1 DEF Stop, StopInPrompt, Asking, StopPublishing, CloseSession, Refs,
       OneUnderway, Importing, Underway, Unless, Note, If, TestInv, SessionTypes,
       PageTypes, Start, Mix, Made
  <1>2. ASSUME Unmount PROVE Refs'
    BY <1>2 DEF Unmount, StopInPrompt, Asking, Note, If, StopPublishing,
       CloseSession, Refs, OneUnderway, Underway, Unless, TestInv, SessionTypes,
       PageTypes, Start, Mix, Made
  <1>3. ASSUME ToggleReturnSound PROVE Refs'
    BY <1>3 DEF ToggleReturnSound, Refs, OneUnderway, Asking, Underway, Unless,
       TestInv, SessionTypes, PageTypes, Start, Mix, Made, page, refs, session,
       audio
  <1>4. ASSUME NEW i \in Start, StartPublishing(i) PROVE Refs'
    BY <1>4 DEF StartPublishing, StopInPrompt, Asking, CloseSession, Refs,
       OneUnderway, Importing, Underway, Unless, Note, If, TestInv, SessionTypes,
       PageTypes, Start, Mix, Made, sound
  <1>5. ASSUME NEW i \in Start, Imported(i) PROVE Refs'
    <2>1. i \in Underway
      BY <1>5 DEF Imported, Underway
    <2>2. CASE mounted
      <3>1. Underway' = Underway /\ Asking' = Asking \cup {i} /\ adaptorRef' = i
        BY <1>5, <2>2 DEF Imported, Underway, Asking, TestInv, PageTypes
      <3>2. \A j \in Asking \cup {i} : j = i
        BY <2>1 DEF Refs, OneUnderway, Underway, Asking
      <3>3. QED
        BY <1>5, <2>1, <3>1, <3>2 DEF Imported, Refs, OneUnderway, page, session,
           audio
    <2>3. CASE ~mounted
      <3>1. Underway' = {} /\ Asking' = {} /\ open = {} /\ adaptorRef' = adaptorRef
        BY <1>5, <2>1, <2>3, StartEnds DEF Imported, Refs
      <3>2. QED
        BY <1>5, <3>1 DEF Imported, Refs, OneUnderway, page, session, audio
    <2>4. QED
      BY <2>2, <2>3
  <1>6. ASSUME NEW i \in Start, ImportFails(i) PROVE Refs'
    BY <1>6 DEF ImportFails, Refs, OneUnderway, Asking, Underway, Unless, TestInv,
       SessionTypes, PageTypes, Start, Mix, Made, refs, session, audio, sound
  <1>7. ASSUME NEW i \in Start, CameraGranted(i) PROVE Refs'
    <2>1. i \in Underway /\ i = adaptorRef /\ Underway # {}
      BY <1>7 DEF CameraGranted, Underway, Asking, Refs, OneUnderway
    <2>2. Underway' = {} /\ Asking' = {} /\ open = {}
      BY <1>7, <2>1, StartEnds DEF CameraGranted, Refs
    <2>3. QED
      BY <1>7, <2>1, <2>2 DEF CameraGranted, Refs, OneUnderway, page, refs, audio
  <1>8. ASSUME NEW i \in Start, CameraRefused(i) PROVE Refs'
    BY <1>8 DEF CameraRefused, Refs, OneUnderway, Asking, Underway, Unless, TestInv,
       SessionTypes, PageTypes, Start, Mix, Made, refs, session, audio, sound
  <1>9. ASSUME NEW i \in Start, PublishStarted(i) PROVE Refs'
    BY <1>9 DEF PublishStarted, Refs, OneUnderway, Asking, Underway, Unless, Note,
       If, TestInv, SessionTypes, PageTypes, Start, Mix, Made, sound
  <1>10. ASSUME NEW i \in Start, PublishEnds(i) PROVE Refs'
    BY <1>10 DEF PublishEnds, Refs, OneUnderway, Asking, Underway, Unless, Note,
       TestInv, SessionTypes, PageTypes, Start, Mix, Made, refs, session, audio,
       sound
  <1>11. ASSUME NEW i \in Start, Closed(i) PROVE Refs'
    BY <1>11 DEF Closed, Refs, OneUnderway, Asking, Underway, Unless, Note, If,
       TestInv, SessionTypes, PageTypes, Start, Mix, Made, refs, audio, sound
  <1>12. ASSUME NEW m \in mixing, Mixed(m) PROVE Refs'
    BY <1>12 DEF Mixed, Refs, OneUnderway, Asking, Underway, Unless, TestInv,
       SessionTypes, PageTypes, Start, Mix, Made, page, refs, session, sound,
       history
  <1>13. ASSUME NEW p \in players, PlayStarted(p) PROVE Refs'
    BY <1>13 DEF PlayStarted, Refs, OneUnderway, Asking, Underway, Unless, TestInv,
       SessionTypes, PageTypes, Start, Mix, Made, refs, session, audio, sound,
       history
  <1>14. ASSUME NEW p \in players, PlayEnds(p) PROVE Refs'
    BY <1>14 DEF PlayEnds, Refs, OneUnderway, Asking, Underway, Unless, TestInv,
       SessionTypes, PageTypes, Start, Mix, Made, refs, session, audio, sound
  <1>15. ASSUME NEW p \in players, PlayerLost(p) PROVE Refs'
    BY <1>15 DEF PlayerLost, Refs, OneUnderway, Asking, Underway, Unless, Note,
       TestInv, SessionTypes, PageTypes, Start, Mix, Made, page, refs, audio, sound
  <1>16. QED
    BY <1>1, <1>2, <1>3, <1>4, <1>5, <1>6, <1>7, <1>8, <1>9, <1>10, <1>11, <1>12,
       <1>13, <1>14, <1>15 DEF Next

\* Every step keeps the player to the one the page holds.
LEMMA PlayerStep ==
    ASSUME TestInv, Refs, Player1, Next,
           Unless({"startInImport", "stopInPrompt", "publishedAgain"})'
    PROVE  Player1'
  <1> USE TestAssumption
  <1>1. ASSUME Stop PROVE Player1'
    BY <1>1 DEF Stop, StopInPrompt, Asking, StopPublishing, CloseSession, Player1,
       Refs, Importing, Underway, Unless, Note, If, TestInv, SessionTypes,
       PageTypes, PlayerTypes, Start, Made
  <1>2. ASSUME Unmount PROVE Player1'
    BY <1>2 DEF Unmount, StopInPrompt, Asking, Note, If, StopPublishing,
       CloseSession, Player1, Refs, Underway, Unless, TestInv, SessionTypes,
       PageTypes, PlayerTypes, Start, Made
  <1>3. ASSUME ToggleReturnSound PROVE Player1'
    BY <1>3 DEF ToggleReturnSound, Player1, Refs, Underway, Unless, TestInv,
       SessionTypes, PageTypes, PlayerTypes, Start, Made, page, refs, session, audio
  <1>4. ASSUME NEW i \in Start, StartPublishing(i) PROVE Player1'
    BY <1>4 DEF StartPublishing, StopInPrompt, Asking, CloseSession, Player1, Refs,
       Importing, Underway, Unless, Note, If, TestInv, SessionTypes, PageTypes,
       PlayerTypes, Start, Made, sound
  <1>5. ASSUME NEW i \in Start, Imported(i) PROVE Player1'
    BY <1>5 DEF Imported, session, Player1, Refs, Underway, Unless, TestInv,
       SessionTypes, PageTypes, PlayerTypes, Start, Made, page, audio, sound,
       history
  <1>6. ASSUME NEW i \in Start, ImportFails(i) PROVE Player1'
    BY <1>6 DEF ImportFails, Player1, Refs, Underway, Unless, TestInv, SessionTypes,
       PageTypes, PlayerTypes, Start, Made, refs, session, audio, sound
  <1>7. ASSUME NEW i \in Start, CameraGranted(i) PROVE Player1'
    BY <1>7 DEF CameraGranted, history, Player1, Refs, Underway, Unless, TestInv,
       SessionTypes, PageTypes, PlayerTypes, Start, Made, refs, session, audio,
       sound
  <1>8. ASSUME NEW i \in Start, CameraRefused(i) PROVE Player1'
    BY <1>8 DEF CameraRefused, Player1, Refs, Underway, Unless, TestInv,
       SessionTypes, PageTypes, PlayerTypes, Start, Made, refs, session, audio,
       sound
  <1>9. ASSUME NEW i \in Start, PublishStarted(i) PROVE Player1'
    BY <1>9 DEF PublishStarted, Player1, Refs, OneUnderway, Underway, Unless, Note,
       If, TestInv, SessionTypes, PageTypes, PlayerTypes, Start, Made, sound
  <1>10. ASSUME NEW i \in Start, PublishEnds(i) PROVE Player1'
    BY <1>10 DEF PublishEnds, Player1, Refs, Underway, Unless, Note, TestInv,
       SessionTypes, PageTypes, PlayerTypes, Start, Made, refs, session, audio,
       sound
  <1>11. ASSUME NEW i \in Start, Closed(i) PROVE Player1'
    BY <1>11 DEF Closed, Player1, Refs, Underway, Unless, Note, If, TestInv,
       SessionTypes, PageTypes, PlayerTypes, Start, Made, refs, audio, sound
  <1>12. ASSUME NEW m \in mixing, Mixed(m) PROVE Player1'
    BY <1>12 DEF Mixed, Player1, Refs, Underway, Unless, TestInv, SessionTypes,
       PageTypes, PlayerTypes, Start, Made, page, refs, session, sound, history
  <1>13. ASSUME NEW p \in players, PlayStarted(p) PROVE Player1'
    BY <1>13 DEF PlayStarted, Player1, Refs, Underway, Unless, TestInv,
       SessionTypes, PageTypes, PlayerTypes, Start, Made, refs, session, audio,
       sound, history
  <1>14. ASSUME NEW p \in players, PlayEnds(p) PROVE Player1'
    BY <1>14 DEF PlayEnds, Player1, Refs, Underway, Unless, TestInv, SessionTypes,
       PageTypes, PlayerTypes, Start, Made, refs, session, audio, sound
  <1>15. ASSUME NEW p \in players, PlayerLost(p) PROVE Player1'
    BY <1>15 DEF PlayerLost, Player1, Refs, Underway, Unless, Note, TestInv,
       SessionTypes, PageTypes, PlayerTypes, Start, Made, page, refs, audio, sound
  <1>16. QED
    BY <1>1, <1>2, <1>3, <1>4, <1>5, <1>6, <1>7, <1>8, <1>9, <1>10, <1>11, <1>12,
       <1>13, <1>14, <1>15 DEF Next

\* Every step keeps a page that is idle, or has failed, without a session.
LEMMA OverStep ==
    ASSUME TestInv, Refs, Player1, Over, Next,
           Unless({"stopInImport", "startInImport", "stopInPrompt", "publishedAgain"})'
    PROVE  Over'
  <1> USE TestAssumption
  <1>1. ASSUME Stop PROVE Over'
    BY <1>1 DEF Stop, StopInPrompt, Asking, StopPublishing, CloseSession,
       OneUnderway, Over, Refs, Player1, Importing, Underway, Unless, Note, If,
       TestInv, SessionTypes, PageTypes, Start, Made, Mix
  <1>2. ASSUME Unmount PROVE Over'
    BY <1>2 DEF Unmount, StopInPrompt, Asking, Note, If, StopPublishing,
       OneUnderway, CloseSession, Over, Refs, Player1, Importing, Underway, Unless,
       TestInv, SessionTypes, PageTypes, Start, Made, Mix
  <1>3. ASSUME ToggleReturnSound PROVE Over'
    BY <1>3 DEF ToggleReturnSound, Over, Refs, Player1, Importing, Asking, Underway,
       Unless, TestInv, SessionTypes, PageTypes, Start, Made, Mix, page, refs,
       session, audio
  <1>4. ASSUME NEW i \in Start, StartPublishing(i) PROVE Over'
    BY <1>4 DEF StartPublishing, StopInPrompt, Asking, CloseSession, Over, Refs,
       Player1, Importing, Underway, Unless, Note, If, TestInv, SessionTypes,
       PageTypes, Start, Made, Mix, sound
  <1>5. ASSUME NEW i \in Start, Imported(i) PROVE Over'
    BY <1>5 DEF Imported, session, Over, Refs, Player1, Importing, Asking, Underway,
       Unless, TestInv, SessionTypes, PageTypes, Start, Made, Mix, page, audio,
       sound, history
  <1>6. ASSUME NEW i \in Start, ImportFails(i) PROVE Over'
    BY <1>6 DEF ImportFails, Over, Refs, Player1, Importing, Asking, Underway,
       Unless, TestInv, SessionTypes, PageTypes, Start, Made, Mix, refs, session,
       audio, sound
  <1>7. ASSUME NEW i \in Start, CameraGranted(i) PROVE Over'
    BY <1>7 DEF CameraGranted, history, Over, Refs, Player1, Importing, Asking,
       Underway, Unless, TestInv, SessionTypes, PageTypes, Start, Made, Mix, refs,
       audio, sound
  <1>8. ASSUME NEW i \in Start, CameraRefused(i) PROVE Over'
    BY <1>8 DEF CameraRefused, Over, Refs, Player1, Importing, Asking, Underway,
       Unless, TestInv, SessionTypes, PageTypes, Start, Made, Mix, refs, session,
       audio, sound
  <1>9. ASSUME NEW i \in Start, PublishStarted(i) PROVE Over'
    BY <1>9 DEF PublishStarted, Over, Refs, Player1, Importing, Asking, Underway,
       Unless, Note, If, TestInv, SessionTypes, PageTypes, Start, Made, Mix, sound
  <1>10. ASSUME NEW i \in Start, PublishEnds(i) PROVE Over'
    BY <1>10 DEF PublishEnds, Over, Refs, Player1, Importing, Asking, Underway,
       Unless, Note, TestInv, SessionTypes, PageTypes, Start, Made, Mix, refs,
       session, audio, sound
  <1>11. ASSUME NEW i \in Start, Closed(i) PROVE Over'
    BY <1>11 DEF Closed, Over, Refs, Player1, Importing, Asking, Underway, Unless,
       Note, If, TestInv, SessionTypes, PageTypes, Start, Made, Mix, refs, audio,
       sound
  <1>12. ASSUME NEW m \in mixing, Mixed(m) PROVE Over'
    BY <1>12 DEF Mixed, Over, Refs, Player1, Importing, Asking, Underway, Unless,
       TestInv, SessionTypes, PageTypes, Start, Made, Mix, page, refs, session,
       sound, history
  <1>13. ASSUME NEW p \in players, PlayStarted(p) PROVE Over'
    BY <1>13 DEF PlayStarted, Over, Refs, Player1, Importing, Asking, Underway,
       Unless, TestInv, SessionTypes, PageTypes, Start, Made, Mix, refs, session,
       audio, sound, history
  <1>14. ASSUME NEW p \in players, PlayEnds(p) PROVE Over'
    BY <1>14 DEF PlayEnds, Over, Refs, Player1, Importing, Asking, Underway, Unless,
       TestInv, SessionTypes, PageTypes, Start, Made, Mix, refs, session, audio,
       sound
  <1>15. ASSUME NEW p \in players, PlayerLost(p) PROVE Over'
    BY <1>15 DEF PlayerLost, Over, Refs, Player1, Importing, Asking, Underway,
       Unless, Note, TestInv, SessionTypes, PageTypes, Start, Made, Mix, page, refs,
       audio, sound
  <1>16. QED
    BY <1>1, <1>2, <1>3, <1>4, <1>5, <1>6, <1>7, <1>8, <1>9, <1>10, <1>11, <1>12,
       <1>13, <1>14, <1>15 DEF Next

\* Every step of a mounted page keeps what a button promises while it is busy.
LEMMA OccupiedStep ==
    ASSUME TestInv, mounted, mounted', Occupied, Next,
           Unless({"ended", "stopInImport", "stopInPrompt", "closedLate"})'
    PROVE  Occupied'
  <1> USE TestAssumption
  <1>1. ASSUME Stop PROVE Occupied'
    BY <1>1 DEF Stop, StopInPrompt, Asking, StopPublishing, CloseSession, Occupied,
       OneUnderway, Importing, Underway, Unless, Note, If, Busy, TestInv,
       SessionTypes, PageTypes, Start, Made
  <1>2. ASSUME Unmount PROVE Occupied'
    BY <1>2 DEF Unmount, StopInPrompt, Asking, Note, If, StopPublishing,
       CloseSession, Occupied, OneUnderway, Importing, Underway, Unless, Busy,
       TestInv, SessionTypes, PageTypes, Start, Made
  <1>3. ASSUME ToggleReturnSound PROVE Occupied'
    BY <1>3 DEF ToggleReturnSound, Occupied, OneUnderway, Importing, Asking,
       Underway, Unless, Busy, TestInv, SessionTypes, PageTypes, Start, Made, page,
       refs, session, audio
  <1>4. ASSUME NEW i \in Start, StartPublishing(i) PROVE Occupied'
    BY <1>4 DEF StartPublishing, StopInPrompt, Asking, CloseSession, Occupied,
       OneUnderway, Importing, Underway, Unless, Note, If, Busy, TestInv,
       SessionTypes, PageTypes, Start, Made, sound
  <1>5. ASSUME NEW i \in Start, Imported(i) PROVE Occupied'
    <2>1. i \in Underway
      BY <1>5 DEF Imported, Underway
    <2>2. CASE mounted
      <3>1. Underway' = Underway /\ Asking' = Asking \cup {i} /\ adaptorRef' = i
        BY <1>5, <2>2 DEF Imported, Underway, Asking, TestInv, PageTypes
      <3>2. \A j \in Asking \cup {i} : j = i
        BY <2>1 DEF Occupied, OneUnderway, Underway, Asking
      <3>3. QED
        BY <1>5, <2>1, <3>1, <3>2 DEF Imported, Occupied, OneUnderway, Busy, page,
           session, audio
    <2>3. CASE ~mounted
      <3>1. Underway' = {} /\ Asking' = {} /\ open = {} /\ adaptorRef' = adaptorRef
        BY <1>5, <2>1, <2>3, StartEnds DEF Imported, Occupied
      <3>2. QED
        BY <1>5, <3>1 DEF Imported, Occupied, OneUnderway, Busy, page, session,
           audio
    <2>4. QED
      BY <2>2, <2>3
  <1>6. ASSUME NEW i \in Start, ImportFails(i) PROVE Occupied'
    <2>1. Underway' = {} /\ Asking' = {} /\ Importing' = {} /\ open = {}
      BY <1>6, StartEnds DEF ImportFails, Occupied, Underway
    <2>2. QED
      BY <1>6, <2>1 DEF ImportFails, Occupied, OneUnderway, Busy, audio, refs,
         session, TestInv, SessionTypes, PageTypes
  <1>7. ASSUME NEW i \in Start, CameraGranted(i) PROVE Occupied'
    <2>1. i \in Underway /\ i = adaptorRef /\ Underway # {}
      BY <1>7 DEF CameraGranted, Underway, Asking, Occupied, OneUnderway
    <2>2. Underway' = {} /\ Asking' = {} /\ open = {}
      BY <1>7, <2>1, StartEnds DEF CameraGranted, Occupied
    <2>3. QED
      BY <1>7, <2>1, <2>2 DEF CameraGranted, Occupied, OneUnderway, Busy, page,
         refs, audio
  <1>8. ASSUME NEW i \in Start, CameraRefused(i) PROVE Occupied'
    <2>1. i \in Underway
      BY <1>8 DEF CameraRefused, Underway
    <2>2. Underway' = {} /\ Asking' = {} /\ open = {}
      BY <1>8, <2>1, StartEnds DEF CameraRefused, Occupied
    <2>3. QED
      BY <1>8, <2>2 DEF CameraRefused, Occupied, OneUnderway, Busy, refs, session
  <1>9. ASSUME NEW i \in Start, PublishStarted(i) PROVE Occupied'
    BY <1>9 DEF PublishStarted, Occupied, OneUnderway, Importing, Asking, Underway,
       Unless, Note, If, Busy, TestInv, SessionTypes, PageTypes, Start, Made, sound
  <1>10. ASSUME NEW i \in Start, PublishEnds(i) PROVE Occupied'
    BY <1>10 DEF PublishEnds, Occupied, OneUnderway, Importing, Asking, Underway,
       Unless, Note, Busy, TestInv, SessionTypes, PageTypes, Start, Made, refs,
       session, audio, sound
  <1>11. ASSUME NEW i \in Start, Closed(i) PROVE Occupied'
    BY <1>11 DEF Closed, Occupied, OneUnderway, Importing, Asking, Underway, Unless,
       Note, If, Busy, TestInv, SessionTypes, PageTypes, Start, Made, refs, audio,
       sound
  <1>12. ASSUME NEW m \in mixing, Mixed(m) PROVE Occupied'
    BY <1>12 DEF Mixed, Occupied, OneUnderway, Importing, Asking, Underway, Unless,
       Busy, TestInv, SessionTypes, PageTypes, Start, Made, page, refs, session,
       sound, history
  <1>13. ASSUME NEW p \in players, PlayStarted(p) PROVE Occupied'
    BY <1>13 DEF PlayStarted, Occupied, OneUnderway, Importing, Asking, Underway,
       Unless, Busy, TestInv, SessionTypes, PageTypes, Start, Made, refs, session,
       audio, sound, history
  <1>14. ASSUME NEW p \in players, PlayEnds(p) PROVE Occupied'
    BY <1>14 DEF PlayEnds, Occupied, OneUnderway, Importing, Asking, Underway,
       Unless, Busy, TestInv, SessionTypes, PageTypes, Start, Made, refs, session,
       audio, sound
  <1>15. ASSUME NEW p \in players, PlayerLost(p) PROVE Occupied'
    BY <1>15 DEF PlayerLost, Occupied, OneUnderway, Importing, Asking, Underway,
       Unless, Note, Busy, TestInv, SessionTypes, PageTypes, Start, Made, page,
       refs, audio, sound
  <1>16. QED
    BY <1>1, <1>2, <1>3, <1>4, <1>5, <1>6, <1>7, <1>8, <1>9, <1>10, <1>11, <1>12,
       <1>13, <1>14, <1>15 DEF Next

\* What the page says of the return and of the sound stays true in every step.
LEMMA ShownStep ==
    ASSUME TestInv, ReturnIsPlayed, SoundIsShown, Next
    PROVE  ReturnIsPlayed' /\ SoundIsShown'
  <1>1. ASSUME Stop PROVE ReturnIsPlayed' /\ SoundIsShown'
    <2>1. ReturnIsPlayed'
      BY <1>1 DEF Stop, StopInPrompt, Asking, StopPublishing, CloseSession,
         ReturnIsPlayed, Unless, Note, If, TestInv, PlayerTypes, page
    <2>2. SoundIsShown'
      BY <1>1 DEF Stop, StopInPrompt, Asking, StopPublishing, CloseSession,
         SoundIsShown, Unless, Note, If, TestInv, PageTypes, page
    <2>3. QED
      BY <2>1, <2>2
  <1>2. ASSUME Unmount PROVE ReturnIsPlayed' /\ SoundIsShown'
    <2>1. ReturnIsPlayed'
      BY <1>2 DEF Unmount, StopInPrompt, Asking, Note, If, StopPublishing,
         CloseSession, ReturnIsPlayed, Unless, TestInv, PlayerTypes, page
    <2>2. SoundIsShown'
      BY <1>2 DEF Unmount, StopInPrompt, Asking, Note, If, StopPublishing,
         CloseSession, SoundIsShown, Unless, TestInv, PageTypes, page
    <2>3. QED
      BY <2>1, <2>2
  <1>3. ASSUME ToggleReturnSound PROVE ReturnIsPlayed' /\ SoundIsShown'
    <2>1. ReturnIsPlayed'
      BY <1>3 DEF ToggleReturnSound, ReturnIsPlayed, Unless, TestInv, PlayerTypes,
         page, refs, session, audio
    <2>2. SoundIsShown'
      BY <1>3 DEF ToggleReturnSound, SoundIsShown, Unless, TestInv, PageTypes, page,
         refs, session, audio
    <2>3. QED
      BY <2>1, <2>2
  <1>4. ASSUME NEW i \in Start, StartPublishing(i)
        PROVE  ReturnIsPlayed' /\ SoundIsShown'
    <2>1. ReturnIsPlayed'
      BY <1>4 DEF StartPublishing, StopInPrompt, Asking, CloseSession,
         ReturnIsPlayed, Unless, Note, If, TestInv, PlayerTypes, page, sound
    <2>2. SoundIsShown'
      BY <1>4 DEF StartPublishing, StopInPrompt, Asking, CloseSession, SoundIsShown,
         Unless, Note, If, TestInv, PageTypes, page, sound
    <2>3. QED
      BY <2>1, <2>2
  <1>5. ASSUME NEW i \in Start, Imported(i) PROVE ReturnIsPlayed' /\ SoundIsShown'
    <2>1. ReturnIsPlayed'
      BY <1>5 DEF Imported, session, ReturnIsPlayed, Unless, TestInv, PlayerTypes,
         page, audio, sound, history
    <2>2. SoundIsShown'
      BY <1>5 DEF Imported, session, SoundIsShown, Unless, TestInv, PageTypes, page,
         audio, sound, history
    <2>3. QED
      BY <2>1, <2>2
  <1>6. ASSUME NEW i \in Start, ImportFails(i)
        PROVE ReturnIsPlayed' /\ SoundIsShown'
    <2>1. ReturnIsPlayed'
      BY <1>6 DEF ImportFails, ReturnIsPlayed, Unless, TestInv, PlayerTypes, page,
         refs, session, audio, sound
    <2>2. SoundIsShown'
      BY <1>6 DEF ImportFails, SoundIsShown, Unless, TestInv, PageTypes, page, refs,
         session, audio, sound
    <2>3. QED
      BY <2>1, <2>2
  <1>7. ASSUME NEW i \in Start, CameraGranted(i)
        PROVE ReturnIsPlayed' /\ SoundIsShown'
    <2>1. ReturnIsPlayed'
      BY <1>7 DEF CameraGranted, history, ReturnIsPlayed, Unless, TestInv,
         PlayerTypes, page, refs, audio, sound
    <2>2. SoundIsShown'
      BY <1>7 DEF CameraGranted, history, SoundIsShown, Unless, TestInv, PageTypes,
         page, refs, audio, sound
    <2>3. QED
      BY <2>1, <2>2
  <1>8. ASSUME NEW i \in Start, CameraRefused(i)
        PROVE ReturnIsPlayed' /\ SoundIsShown'
    <2>1. ReturnIsPlayed'
      BY <1>8 DEF CameraRefused, ReturnIsPlayed, Unless, TestInv, PlayerTypes, page,
         refs, session, audio, sound
    <2>2. SoundIsShown'
      BY <1>8 DEF CameraRefused, SoundIsShown, Unless, TestInv, PageTypes, page,
         refs, session, audio, sound
    <2>3. QED
      BY <2>1, <2>2
  <1>9. ASSUME NEW i \in Start, PublishStarted(i)
        PROVE  ReturnIsPlayed' /\ SoundIsShown'
    <2>1. ReturnIsPlayed'
      BY <1>9 DEF PublishStarted, ReturnIsPlayed, Unless, Note, If, TestInv,
         PlayerTypes, page, sound
    <2>2. SoundIsShown'
      BY <1>9 DEF PublishStarted, SoundIsShown, Unless, Note, If, TestInv,
         PageTypes, page, sound
    <2>3. QED
      BY <2>1, <2>2
  <1>10. ASSUME NEW i \in Start, PublishEnds(i)
        PROVE ReturnIsPlayed' /\ SoundIsShown'
    <2>1. ReturnIsPlayed'
      BY <1>10 DEF PublishEnds, ReturnIsPlayed, Unless, Note, TestInv, PlayerTypes,
         page, refs, session, audio, sound
    <2>2. SoundIsShown'
      BY <1>10 DEF PublishEnds, SoundIsShown, Unless, Note, TestInv, PageTypes,
         page, refs, session, audio, sound
    <2>3. QED
      BY <2>1, <2>2
  <1>11. ASSUME NEW i \in Start, Closed(i) PROVE ReturnIsPlayed' /\ SoundIsShown'
    <2>1. ReturnIsPlayed'
      BY <1>11 DEF Closed, ReturnIsPlayed, Unless, Note, If, TestInv, PlayerTypes,
         page, refs, audio, sound
    <2>2. SoundIsShown'
      BY <1>11 DEF Closed, SoundIsShown, Unless, Note, If, TestInv, PageTypes, page,
         refs, audio, sound
    <2>3. QED
      BY <2>1, <2>2
  <1>12. ASSUME NEW m \in mixing, Mixed(m) PROVE ReturnIsPlayed' /\ SoundIsShown'
    <2>1. ReturnIsPlayed'
      BY <1>12 DEF Mixed, ReturnIsPlayed, Unless, TestInv, PlayerTypes, page, refs,
         session, sound, history
    <2>2. SoundIsShown'
      BY <1>12 DEF Mixed, SoundIsShown, Unless, TestInv, PageTypes, page, refs,
         session, sound, history
    <2>3. QED
      BY <2>1, <2>2
  <1>13. ASSUME NEW p \in players, PlayStarted(p)
         PROVE  ReturnIsPlayed' /\ SoundIsShown'
    <2>1. ReturnIsPlayed'
      BY <1>13 DEF PlayStarted, ReturnIsPlayed, Unless, TestInv, PlayerTypes, page,
         refs, session, audio, sound, history
    <2>2. SoundIsShown'
      BY <1>13 DEF PlayStarted, SoundIsShown, Unless, TestInv, PageTypes, page,
         refs, session, audio, sound, history
    <2>3. QED
      BY <2>1, <2>2
  <1>14. ASSUME NEW p \in players, PlayEnds(p)
         PROVE ReturnIsPlayed' /\ SoundIsShown'
    <2>1. ReturnIsPlayed'
      BY <1>14 DEF PlayEnds, ReturnIsPlayed, Unless, TestInv, PlayerTypes, page,
         refs, session, audio, sound
    <2>2. SoundIsShown'
      BY <1>14 DEF PlayEnds, SoundIsShown, Unless, TestInv, PageTypes, page, refs,
         session, audio, sound
    <2>3. QED
      BY <2>1, <2>2
  <1>15. ASSUME NEW p \in players, PlayerLost(p)
         PROVE  ReturnIsPlayed' /\ SoundIsShown'
    <2>1. ReturnIsPlayed'
      BY <1>15 DEF PlayerLost, ReturnIsPlayed, Unless, Note, TestInv, PlayerTypes,
         page, refs, audio, sound
    <2>2. SoundIsShown'
      BY <1>15 DEF PlayerLost, SoundIsShown, Unless, Note, TestInv, PageTypes, page,
         refs, audio, sound
    <2>3. QED
      BY <2>1, <2>2
  <1>16. QED
    BY <1>1, <1>2, <1>3, <1>4, <1>5, <1>6, <1>7, <1>8, <1>9, <1>10, <1>11, <1>12,
       <1>13, <1>14, <1>15 DEF Next

\* The exceptions of each part, through a step of the page.
LEMMA HoldNext ==
    ASSUME TestInv, HoldInv, Next
    PROVE  HoldInv'
  <1>1. \A S : Unless(S)' => Unless(S)
    BY Grows DEF Unless
  <1>2. RefsInv'
    BY <1>1, RefsStep DEF RefsInv, HoldInv
  <1>3. PlayerInv'
    <2>1. SUFFICES ASSUME Unless({"startInImport", "stopInPrompt", "publishedAgain"})'
                   PROVE Player1'
      BY DEF PlayerInv
    <2>2. /\ Unless({"startInImport", "stopInPrompt", "publishedAgain"})
          /\ Unless({"startInImport", "stopInPrompt"})
      BY <2>1, <1>1 DEF Unless
    <2>3. QED
      BY <2>1, <2>2, PlayerStep DEF RefsInv, PlayerInv, HoldInv
  <1>4. OverInv'
    <2>1. SUFFICES ASSUME Unless({"stopInImport", "startInImport", "stopInPrompt",
                                  "publishedAgain"})'
                   PROVE Over'
      BY DEF OverInv
    <2>2. /\ Unless({"stopInImport", "startInImport", "stopInPrompt", "publishedAgain"})
          /\ Unless({"startInImport", "stopInPrompt", "publishedAgain"})
          /\ Unless({"startInImport", "stopInPrompt"})
      BY <2>1, <1>1 DEF Unless
    <2>3. QED
      BY <2>1, <2>2, OverStep DEF RefsInv, PlayerInv, OverInv, HoldInv
  <1>5. QED
    BY <1>2, <1>3, <1>4 DEF HoldInv

\* The screen invariant survives every step, the unmount included.
LEMMA ScreenNext ==
    ASSUME TestInv, ScreenInv, Next
    PROVE  ScreenInv'
  <1>1. ReturnIsPlayed' /\ SoundIsShown'
    BY ShownStep DEF ScreenInv
  <1>2. OccupiedInv'
    <2>1. SUFFICES ASSUME mounted',
                          Unless({"ended", "stopInImport", "stopInPrompt", "closedLate"})'
                   PROVE Occupied'
      BY DEF OccupiedInv
    <2>2. mounted /\ Unless({"ended", "stopInImport", "stopInPrompt", "closedLate"})
      BY <2>1, Grows DEF Unless
    <2>3. QED
      BY <2>1, <2>2, OccupiedStep DEF OccupiedInv, ScreenInv
  <1>3. QED
    BY <1>1, <1>2 DEF ScreenInv

\* A new page, and a step that changes nothing of it.
LEMMA InitIInv ==
    ASSUME Init
    PROVE  IInv
  <1> USE TestAssumption DEF Init
  <1>1. /\ presses \in 0..MaxPresses /\ overlaps \subseteq Overlap
        /\ step \in [Start -> {"none", "import", "asking", "done"}]
        /\ Importing = {} /\ Underway = {} /\ Asking = {}
    BY DEF Overlap, Importing, Asking, Underway
  <1>2. /\ mounted \in BOOLEAN /\ silent \in BOOLEAN
        /\ soundShown \in BOOLEAN /\ wanted \in BOOLEAN
    OBVIOUS
  <1>3. PageTypes
    BY <1>1, <1>2 DEF PageTypes
  <1>4. SessionTypes /\ PlayerTypes /\ Made
    BY DEF SessionTypes, PlayerTypes, Made
  <1>5. Counted
    <2>1. Unconfirmed = Start
      BY DEF Unconfirmed
    <2>2. Cardinality(Start) = MaxStarts
      BY FS_Interval DEF Start
    <2>3. QED
      BY <2>1, <2>2 DEF Counted
  <1>6. HoldInv
    BY <1>1 DEF HoldInv, RefsInv, PlayerInv, OverInv, Refs, Player1, Over,
       OneUnderway
  <1>7. OccupiedInv /\ ReturnIsPlayed
    BY <1>1 DEF OccupiedInv, Occupied, OneUnderway, ReturnIsPlayed
  <1>8. SoundIsShown
    BY DEF SoundIsShown
  <1>9. QED
    BY <1>3, <1>4, <1>5, <1>6, <1>7, <1>8 DEF IInv, TestInv, ScreenInv

\* The invariant is about the variables alone: a stutter keeps it.
LEMMA IInvStutters ==
    ASSUME IInv, UNCHANGED vars
    PROVE  IInv'
  <1> USE DEF vars, page, refs, session, audio, sound, history
  <1>1. TestInv'
    BY DEF IInv, TestInv, PageTypes, SessionTypes, PlayerTypes, Made, Counted,
       Unconfirmed
  <1>2. HoldInv'
    BY DEF IInv, HoldInv, RefsInv, PlayerInv, OverInv, Refs, Player1, Over,
       OneUnderway, Importing, Asking, Underway, Unless
  <1>3. ScreenInv'
    BY DEF IInv, ScreenInv, OccupiedInv, Occupied, OneUnderway, Asking, Underway,
       Busy, Unless, ReturnIsPlayed, SoundIsShown
  <1>4. QED
    BY <1>1, <1>2, <1>3 DEF IInv

\* The inductive invariant: the types and counts of the page, what its refs hold, and
\* what its screen shows.
THEOREM TestAlways == Spec => []IInv
  <1>1. Init => IInv
    BY InitIInv
  <1>2. IInv /\ [Next]_vars => IInv'
    BY IInvStutters, TestNext, HoldNext, ScreenNext DEF IInv
  <1>3. QED
    BY <1>1, <1>2, PTL DEF Spec

\* The types of the page's state. That no more players are made than there are starts
\* and presses needs the starts yet to be confirmed to be counted.
THEOREM TypeCorrect == Spec => []TypeOK
  <1>1. ASSUME TestInv PROVE made \in 0..(MaxStarts + MaxPresses)
    BY <1>1, UnconfirmedFinite, TestAssumption DEF TestInv, Counted, PlayerTypes,
       PageTypes
  <1>2. ASSUME IInv PROVE TypeOK
    BY <1>1, <1>2 DEF IInv, TestInv, PageTypes, SessionTypes, PlayerTypes, TypeOK
  <1>3. QED
    BY <1>2, TestAlways, PTL

\* No camera, player or audio context is open beside what the page can stop, and a
\* stopped test stays over.
THEOREM SessionsAreHeld == Spec => []SessionsHeld
  <1>1. ASSUME IInv PROVE NothingLost
    BY <1>1 DEF IInv, HoldInv, RefsInv, PlayerInv, Refs, Player1, NothingLost
  <1>2. ASSUME IInv PROVE StopHolds
    BY <1>2 DEF IInv, HoldInv, OverInv, Over, StopHolds
  <1>3. QED
    BY <1>1, <1>2, TestAlways, PTL DEF SessionsHeld

\* Stop is on offer while the camera is on, a return that is shown is played, and the
\* sound button shows what is heard.
THEOREM ScreenShowsTest == Spec => []ScreenIsTrue
  <1>1. ASSUME IInv PROVE ScreenIsTrue
    BY <1>1 DEF IInv, ScreenInv, OccupiedInv, Occupied, StopOffered, ScreenIsTrue
  <1>2. QED
    BY <1>1, TestAlways, PTL
=============================================================================
