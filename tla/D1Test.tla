------------------------------- MODULE D1Test -------------------------------
(***************************************************************************)
(* The page that tests an Ant Media server (app/d1-test/page): it          *)
(* publishes the camera through one adaptor of the SDK and, each time the  *)
(* server confirms a publish, plays the stream back through another.       *)
(*                                                                         *)
(* A start awaits the import of the SDK, and goes on whatever was pressed  *)
(* meanwhile; its adaptor then asks for the camera, which is on when the   *)
(* operator has granted it, whatever became of the adaptor. Adaptors call  *)
(* back at any time, and every callback writes the page's one status,      *)
(* whichever session it belongs to: "closed" comes some time after         *)
(* closeWebSocket. A closed adaptor receives nothing else.                 *)
(***************************************************************************)
EXTENDS Naturals, FiniteSets

CONSTANTS
    MaxStarts,  \* bound: times the operator presses Start
    MaxPresses  \* bound: stops, sound changes, repeated publishes and faults

ASSUME TestAssumption == MaxStarts \in Nat /\ MaxPresses \in Nat

VARIABLES
    mounted,      \* mountedRef
    status,       \* the page's status
    returnStatus, \* its returnStatus
    step,         \* per start, what it awaits
    adaptorRef,   \* adaptorRef: the start whose adaptor it is, 0 for null
    playerRef,    \* id of a player, 0 for null
    open,         \* adaptors whose camera and WebSocket are on
    players,      \* players that were not stopped
    made,         \* players created so far
    confirmed,    \* those whose publish the server has confirmed
    closing,      \* stopped adaptors that have not called back "closed"
    context,      \* audioContextRef: the start it was created for, 0 for null
    contexts,     \* contexts that are not closed
    mixing,       \* setupTestSoundMixer calls awaiting replaceTrack
    tone,         \* toneGainRef: the adaptor it sounds in, 0 for null
    silent,       \* the return <video> is muted
    soundShown,   \* returnSoundEnabled
    wanted,       \* history: the last word was a Start, not a stop
    presses,      \* how many of what MaxPresses bounds there have been
    overlaps      \* history: which events met what they were not written for

page    == <<mounted, status, returnStatus>>
refs    == <<adaptorRef, playerRef>>
session == <<open, players, made, confirmed, closing>>
audio   == <<context, contexts, mixing, tone>>
sound   == <<silent, soundShown>>
history == <<wanted, presses, overlaps>>
vars    == <<page, step, refs, session, audio, sound, history>>

-----------------------------------------------------------------------------
Start  == 1..MaxStarts
Player == 1..(MaxStarts + MaxPresses)
Mix    == [adaptor: Start, context: Start]
Overlap == {"stopInImport", "startInImport", "closedLate", "ended",
            "publishedAgain", "playerLost", "stopWithSound", "stopInPrompt"}

Importing == {i \in Start : step[i] = "import"}
Asking    == {i \in Start : step[i] = "asking"}
Busy      == status \in {"connecting", "publishing"}

If(name, condition) == IF condition THEN {name} ELSE {}
Note(names) == overlaps' = overlaps \cup names
StopInPrompt == If("stopInPrompt", adaptorRef \in Asking)
Press == presses < MaxPresses /\ presses' = presses + 1

Init ==
    /\ mounted = TRUE /\ status = "idle" /\ returnStatus = "idle"
    /\ step = [i \in Start |-> "none"]
    /\ adaptorRef = 0 /\ playerRef = 0
    /\ open = {} /\ players = {} /\ made = 0 /\ confirmed = {} /\ closing = {}
    /\ context = 0 /\ contexts = {} /\ mixing = {} /\ tone = 0
    /\ silent = TRUE /\ soundShown = FALSE
    /\ wanted = FALSE /\ presses = 0 /\ overlaps = {}

-----------------------------------------------------------------------------
(* Stopping.                                                               *)

\* Mutant of CloseSession: the player is left to the next session.
CloseAdaptorOnly ==
    /\ open' = open \ {adaptorRef} /\ confirmed' = confirmed \ {adaptorRef}
    /\ closing' = closing \cup (open \cap {adaptorRef})
    /\ mixing' = {m \in mixing : m.adaptor # adaptorRef}
    /\ adaptorRef' = 0
    /\ UNCHANGED <<players, playerRef, made>>

\* Mutant of CloseSession: the adaptor's media stream is not closed.
CloseSocketsOnly ==
    /\ UNCHANGED open /\ confirmed' = confirmed \ {adaptorRef}
    /\ closing' = closing \cup (open \cap {adaptorRef})
    /\ mixing' = {m \in mixing : m.adaptor # adaptorRef}
    /\ adaptorRef' = 0
    /\ players' = players \ {playerRef} /\ playerRef' = 0
    /\ UNCHANGED made

\* The adaptors that are held are stopped and closed, and the camera with them: one
\* that is still asking for the camera has no stream yet, and no WebSocket, to close.
\* The replaceTrack of a connection that was closed never settles.
CloseSession ==
    /\ open' = open \ {adaptorRef} /\ confirmed' = confirmed \ {adaptorRef}
    /\ closing' = closing \cup (open \cap {adaptorRef})
    /\ mixing' = {m \in mixing : m.adaptor # adaptorRef}
    /\ adaptorRef' = 0
    /\ players' = players \ {playerRef} /\ playerRef' = 0
    /\ UNCHANGED made

\* Mutant of StopPublishing: the sound button is reset by a start as well.
StopPublishingShown(updateState) ==
    /\ CloseSession
    /\ tone' = 0
    /\ contexts' = contexts \ {context} /\ context' = 0
    /\ IF updateState /\ mounted
       THEN status' = "idle" /\ returnStatus' = "idle"
       ELSE UNCHANGED <<status, returnStatus>>
    /\ soundShown' = FALSE
    /\ UNCHANGED <<step, silent>>

StopPublishing(updateState) ==
    /\ CloseSession
    /\ tone' = 0
    /\ contexts' = contexts \ {context} /\ context' = 0
    /\ IF updateState /\ mounted
       THEN status' = "idle" /\ returnStatus' = "idle" /\ soundShown' = FALSE
       ELSE UNCHANGED <<status, returnStatus, soundShown>>
    /\ UNCHANGED <<step, silent>>

Stop ==
    /\ mounted /\ Busy /\ Press
    /\ StopPublishing(TRUE) /\ wanted' = FALSE
    /\ Note(If("stopInImport", Importing # {}) \cup If("stopWithSound", ~silent)
         \cup StopInPrompt)
    /\ UNCHANGED mounted

Unmount ==
    /\ mounted /\ mounted' = FALSE
    /\ StopPublishing(FALSE) /\ wanted' = FALSE
    /\ Note(StopInPrompt)
    /\ UNCHANGED presses

-----------------------------------------------------------------------------
(* Starting.                                                               *)

\* startPublishing up to the import: what is held is stopped without a word, and
\* the status is the new session's.
StartPublishing(i) ==
    /\ mounted /\ ~Busy
    /\ step[i] = "none" /\ \A j \in 1..(i - 1) : step[j] # "none"
    /\ CloseSession
    /\ tone' = 0
    /\ context' = i /\ contexts' = (contexts \ {context}) \cup {i}
    /\ status' = "connecting" /\ returnStatus' = "idle"
    /\ step' = [step EXCEPT ![i] = "import"]
    /\ wanted' = TRUE
    /\ Note(If("startInImport", Importing # {}) \cup StopInPrompt)
    /\ UNCHANGED <<mounted, sound, presses>>

\* The SDK is there: on a page that is still mounted the adaptor is created, and
\* asks for the camera.
Imported(i) ==
    /\ step[i] = "import"
    /\ step' = [step EXCEPT ![i] = IF mounted THEN "asking" ELSE "done"]
    /\ adaptorRef' = IF mounted THEN i ELSE adaptorRef
    /\ UNCHANGED <<page, playerRef, session, audio, sound, history>>

ImportFails(i) ==
    /\ step[i] = "import" /\ Press
    /\ step' = [step EXCEPT ![i] = "done"]
    /\ status' = "error"
    /\ UNCHANGED <<mounted, returnStatus, refs, session, audio, sound, wanted, overlaps>>

-----------------------------------------------------------------------------
(* The publishing adaptor.                                                 *)

\* The operator grants the camera: it is on, and the adaptor connects, also one that
\* was stopped meanwhile. On a mounted page "initialized" then publishes with it.
CameraGranted(i) ==
    /\ step[i] = "asking" /\ step' = [step EXCEPT ![i] = "done"]
    /\ open' = open \cup {i}
    /\ UNCHANGED <<page, refs, players, made, confirmed, closing, audio, sound, history>>

CameraRefused(i) ==
    /\ step[i] = "asking" /\ step' = [step EXCEPT ![i] = "done"] /\ Press
    /\ status' = IF mounted THEN "error" ELSE status
    /\ UNCHANGED <<mounted, returnStatus, refs, session, audio, sound, wanted, overlaps>>

\* "publish_started", which the SDK repeats when it has published anew: the test
\* tone is mixed in, and startReturnPlayback creates a player.
PublishStarted(i) ==
    /\ mounted /\ i \in open
    /\ IF i \in confirmed THEN Press ELSE UNCHANGED presses
    /\ confirmed' = confirmed \cup {i} /\ status' = "publishing"
    /\ context' = IF context = 0 THEN i ELSE context
    /\ contexts' = IF context = 0 THEN contexts \cup {i} ELSE contexts
    /\ mixing' = mixing \cup {[adaptor |-> i, context |-> context']}
    /\ made' = made + 1 /\ players' = players \cup {made'} /\ playerRef' = made'
    /\ returnStatus' = "connecting"
    /\ Note(If("publishedAgain", i \in confirmed))
    /\ UNCHANGED <<mounted, step, adaptorRef, open, closing, tone, sound, wanted>>

\* setupTestSoundMixer after its await.
Mixed(m) ==
    /\ m \in mixing /\ mixing' = mixing \ {m}
    /\ context' = m.context /\ tone' = m.adaptor
    /\ UNCHANGED <<page, step, refs, session, contexts, sound, history>>

\* The session ends or fails without the operator: "publish_finished", "closed" or
\* an error. The adaptor is kept, with the camera.
PublishEnds(i) ==
    /\ mounted /\ i \in open /\ Press
    /\ status' \in {"idle", "error"}
    /\ Note({"ended"})
    /\ UNCHANGED <<mounted, returnStatus, step, refs, session, audio, sound, wanted>>

\* "closed" of an adaptor that was stopped.
Closed(i) ==
    /\ i \in closing /\ closing' = closing \ {i}
    /\ status' = IF mounted THEN "idle" ELSE status
    /\ Note(If("closedLate", mounted /\ Busy))
    /\ UNCHANGED <<mounted, returnStatus, step, refs, open, players, made, confirmed,
                   audio, sound, wanted, presses>>

-----------------------------------------------------------------------------
(* The return player.                                                      *)

\* "play_started", and handleReturnPlaying at the first picture.
PlayStarted(p) ==
    /\ mounted /\ p \in players /\ returnStatus' = "playing"
    /\ UNCHANGED <<mounted, status, step, refs, session, audio, sound, history>>

\* "play_finished", or an error.
PlayEnds(p) ==
    /\ mounted /\ p \in players /\ Press
    /\ returnStatus' \in {"idle", "error"}
    /\ UNCHANGED <<mounted, status, step, refs, session, audio, sound, wanted, overlaps>>

\* Its WebSocket closes: the player's callback has no "closed".
PlayerLost(p) ==
    /\ p \in players /\ Press
    /\ players' = players \ {p}
    /\ Note({"playerLost"})
    /\ UNCHANGED <<page, step, refs, open, made, confirmed, closing, audio, sound,
                   wanted>>

ToggleReturnSound ==
    /\ mounted /\ returnStatus = "playing" /\ Press
    /\ silent' = ~silent /\ soundShown' = silent
    /\ UNCHANGED <<page, step, refs, session, audio, wanted, overlaps>>

-----------------------------------------------------------------------------
Next ==
    \/ Stop \/ Unmount \/ ToggleReturnSound
    \/ \E i \in Start :
        \/ StartPublishing(i) \/ Imported(i) \/ ImportFails(i)
        \/ CameraGranted(i) \/ CameraRefused(i)
        \/ PublishStarted(i) \/ PublishEnds(i) \/ Closed(i)
    \/ \E m \in mixing : Mixed(m)
    \/ \E p \in players : PlayStarted(p) \/ PlayEnds(p) \/ PlayerLost(p)

Spec == Init /\ [][Next]_vars

-----------------------------------------------------------------------------
TypeOK ==
    /\ mounted \in BOOLEAN
    /\ status \in {"idle", "connecting", "publishing", "error"}
    /\ returnStatus \in {"idle", "connecting", "playing", "error"}
    /\ step \in [Start -> {"none", "import", "asking", "done"}]
    /\ adaptorRef \in 0..MaxStarts /\ playerRef \in 0..made
    /\ made \in 0..(MaxStarts + MaxPresses)
    /\ open \subseteq Start /\ players \subseteq 1..made
    /\ confirmed \subseteq open /\ closing \subseteq Start \ open
    /\ context \in 0..MaxStarts /\ contexts \subseteq Start
    /\ mixing \subseteq Mix /\ tone \in 0..MaxStarts
    /\ silent \in BOOLEAN /\ soundShown \in BOOLEAN
    /\ wanted \in BOOLEAN /\ presses \in 0..MaxPresses
    /\ overlaps \subseteq Overlap

Unless(names) == overlaps \cap names = {}

\* What is open is what the page holds, and can stop: no camera stays on, no
\* player and no audio context stays open, beside those in the refs, unless a start
\* was made while another was importing the SDK, an adaptor was stopped while it
\* asked for the camera, or a publish was confirmed twice.
NothingLost ==
    /\ Unless({"startInImport", "stopInPrompt"})
       => open \subseteq {adaptorRef} /\ contexts \subseteq {context}
    /\ Unless({"startInImport", "stopInPrompt", "publishedAgain"})
       => players \subseteq {playerRef}

\* A test that was stopped, by its button or by closing the page, is over: nothing
\* of it comes back, unless it was stopped or started again while the SDK was being
\* imported, or stopped before the operator had answered for the camera, or its
\* publish had been confirmed twice.
StopHolds ==
    ~wanted
    /\ Unless({"stopInImport", "startInImport", "stopInPrompt", "publishedAgain"})
    => open = {} /\ players = {} /\ contexts = {} /\ tone = 0

SessionsHeld == NothingLost /\ StopHolds

\* While the camera is on, Stop is on offer, unless the server ended the session
\* (the camera stays on), a stop met the import or the prompt, or the "closed" of the
\* last session came after the next one had begun.
StopOffered ==
    mounted /\ open # {}
    /\ Unless({"ended", "stopInImport", "stopInPrompt", "closedLate"})
    => Busy

\* A return that is shown as received has a player, unless the player was lost.
ReturnIsPlayed ==
    mounted /\ returnStatus = "playing" /\ Unless({"playerLost"}) => players # {}

\* The sound button shows whether the return is heard, unless a test was stopped
\* with its sound on: the button is reset then, and the element is not.
SoundIsShown == Unless({"stopWithSound"}) => soundShown = ~silent

ScreenIsTrue == StopOffered /\ ReturnIsPlayed /\ SoundIsShown
=============================================================================
