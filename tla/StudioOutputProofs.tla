------------------------- MODULE StudioOutputProofs -------------------------
(***************************************************************************)
(* Theorems about StudioOutput, for every number of joins and events: the  *)
(* types, the adaptors the page can still reach, what is heard on air and  *)
(* that nothing is off it.                                                 *)
(***************************************************************************)
EXTENDS StudioOutput, TLAPS

\* The type invariant, in the groups that one lemma each is about.
PageTypes ==
    /\ mounted \in BOOLEAN
    /\ status \in {"idle", "ready", "live"}
    /\ target \in {"livekit", "antmedia"}
    /\ room \in Join
    /\ programAudio \in BOOLEAN /\ selected \in BOOLEAN

JobTypes ==
    job \in [kind: {"none", "start", "stop"},
             step: {"none", "mixing", "mixed", "import", "adaptor",
                    "sending", "unpublishing", "closing"},
             id: Ref]

MixTypes ==
    /\ context \in Ref /\ closed \subseteq Id /\ nodes \in Ref
    /\ closing \in {"none", "stop", "leave"}
    /\ track \in Ref /\ published \subseteq Publication /\ syncs \subseteq Call

AntTypes ==
    /\ publisher \in Ref /\ player \in Ref
    /\ adaptors \subseteq Adaptor /\ players \subseteq Id

HistoryTypes ==
    /\ joins \in Join /\ presses \in 0..MaxPresses
    /\ made \in [Made -> Nat]
    /\ overlaps \subseteq Overlap

\* The context in use and those that were closed have been created.
Created == context <= made["context"] /\ \A c \in closed : c <= made["context"]

\* A handler's steps; close() and publishTrack are awaited by the handler they belong
\* to, and a mixer that is closing is the one the page still has.
Steps ==
    /\ \/ job = NoJob
       \/ job.kind = "start" /\ job.step \in {"mixing", "mixed", "import", "adaptor"}
       \/ job.kind = "stop" /\ job.step \in {"sending", "unpublishing", "closing"}
    /\ closing # "none" => context # 0 /\ context \in closed
    /\ (closing = "stop") = (job.step = "closing")
    /\ job.step \in {"import", "adaptor"} => job.id # 0
    /\ \A s \in syncs : s.caller = "start" => job.step = "mixing"
    /\ \A s, t \in syncs : s.caller = "start" /\ t.caller = "start" => s = t

\* One adaptor at most is open, none while the SDK is imported, and the page holds a
\* player of one that has started: the only player, until a second start is reported.
Held ==
    /\ \A a \in adaptors : a.id = publisher /\ (a.started => player \in players)
    /\ \A a, b \in adaptors : a = b
    /\ job.step = "import" => adaptors = {}
    /\ Unless({"startedAgain"}) =>
          /\ players \subseteq {player}
          /\ players # {} => \E a \in adaptors : a.started

OutputInv ==
    /\ PageTypes /\ JobTypes /\ MixTypes /\ AntTypes /\ HistoryTypes
    /\ Created /\ Steps /\ Held

\* The states of a page that nothing has disturbed: which handlers run in which
\* status, that the mixer in use is open, and the adaptor of the Ant Media output.
Session ==
    /\ (status = "idle") = (room = 0)
    /\ closing = "none" /\ context # 0 => context \notin closed
    /\ closing = "leave" => job = NoJob /\ status # "live"
    /\ job.kind = "start" => status = "ready" /\ closing = "none" /\ context # 0
    /\ job.kind = "stop" => status = "live"
    /\ job.step = "mixing" => target = "livekit"
    /\ job.step \in {"import", "adaptor"} => target = "antmedia"
    /\ status = "live" => context # 0
    /\ job.step = "unpublishing" => track # 0
    /\ job.step = "import" => job.id = context
    /\ job.step = "adaptor" =>
          /\ job.id = publisher
          /\ adaptors = {[id |-> publisher, context |-> context, started |-> FALSE]}
    /\ IF status = "live" /\ job = NoJob /\ target = "antmedia"
       THEN adaptors = {[id |-> publisher, context |-> context, started |-> TRUE]}
       ELSE job.step # "adaptor" => adaptors = {}

\* What of the mix is published, when it did not change during a Stop either.
Mix ==
    /\ track = 0 => published = {}
    /\ track # 0 => target = "livekit" /\ syncs = {}
    /\ \A p \in published : p.id = track /\ p.room = room
    /\ \A s \in syncs : s.caller = "start"
    /\ job = NoJob => (track # 0) = (status = "live" /\ target = "livekit")
    /\ target = "livekit" /\ job.step = "mixed" => track # 0
    /\ job.step \in {"unpublishing", "closing"} => published = {}
    /\ job.step = "closing" => track = 0

\* Which mix that is, and whether it is heard, when it did not change during a Start
\* either.
Heard ==
    /\ track # 0 /\ job.kind # "stop" =>
          /\ published = {[id |-> track, context |-> context, room |-> room,
                           muted |-> ~Audible]}
          /\ Audible => nodes = context
    /\ \A s \in syncs : /\ s.id # 0 /\ s.context = context /\ s.room = room
                        /\ s.audible = Audible
                        /\ Audible => nodes = context

Disturbed == {"startInClose", "leaveInFlight", "failed"}
SessionInv == mounted /\ Unless(Disturbed) => Session
MixInv     == mounted /\ Unless(Disturbed \cup {"mixInStop"}) => Mix
HeardInv   == mounted /\ Unless(Disturbed \cup {"mixInStop", "mixInStart"}) => Heard

\* A page closed between two handlers leaves nothing behind, and has the track that
\* keeps a late change of its cameras from publishing again.
Ended ==
    /\ Quiet /\ published = {} /\ adaptors = {}
    /\ status = "live" /\ target = "livekit" => track # 0
Gone ==
    ~mounted /\ Unless(Disturbed \cup {"mixInStop", "unmountInFlight"}) => Ended

AirInv == SessionInv /\ MixInv /\ HeardInv /\ Gone

\* A mute leaves the publications what they are.
LEMMA MuteTypes ==
    ASSUME published \subseteq Publication, NEW flag \in BOOLEAN, SetMuted(flag)
    PROVE  published' \subseteq Publication
  <1>1. \A p \in published : [p EXCEPT !.muted = flag] \in Publication
    BY DEF Publication
  <1>2. QED
    BY <1>1 DEF SetMuted

\* Sync creates what it counts with a press, and publishes under a fresh identifier.
LEMMA SyncTypes ==
    ASSUME OutputInv, NEW caller \in {"start", "mix"}, Press, Sync(caller),
           PageTypes'
    PROVE  /\ MixTypes' /\ made' \in [Made -> Nat] /\ presses' \in 0..MaxPresses
           /\ Created'
           /\ closing' # "none" => context' # 0 /\ context' \in closed'
           /\ closing' = closing
           /\ \/ syncs' = syncs
              \/ \E c \in Call : c.caller = caller /\ syncs' = syncs \cup {c}
  <1> USE OutputAssumption
  <1>1. /\ made \in [Made -> Nat] /\ presses \in 0..MaxPresses /\ presses' = presses + 1
        /\ presses < MaxPresses /\ context \in Ref /\ closed \subseteq Id
        /\ made["context"] \in Nat /\ made["track"] \in Nat
        /\ context <= made["context"] /\ \A c \in closed : c <= made["context"]
        /\ track \in Ref /\ published \subseteq Publication
        /\ syncs \subseteq Call /\ room \in Join
    BY DEF OutputInv, HistoryTypes, Press, Created, MixTypes, Made, Id, Ref,
       PageTypes
  <1>2. /\ made["context"] + 1 \in Id /\ made["track"] + 1 \in Id
        /\ presses' \in 0..MaxPresses
    BY <1>1 DEF Id
  <1> DEFINE current == IF context = 0 THEN made["context"] + 1 ELSE context
             publish == target = "livekit" /\ track = 0 /\ room # 0
             call == [caller |-> caller, id |-> made["track"] + 1, context |-> current,
                                                     room |-> room, audible |-> Audible']
  <1>3. current \in Id
    BY <1>1, <1>2 DEF Id, Ref
  <1>4. /\ context' = current /\ nodes' = (IF Audible' THEN current ELSE 0)
        /\ made' = [made EXCEPT !["context"] = IF context = 0 THEN @ + 1 ELSE @,
                                !["track"] = IF publish THEN made["track"] + 1 ELSE @]
        /\ IF publish THEN syncs' = syncs \cup {call} /\ UNCHANGED published
           ELSE SetMuted(~Audible') /\ UNCHANGED syncs
        /\ UNCHANGED <<closed, closing, track>>
    BY DEF Sync
  <1>5. Audible' \in BOOLEAN
    BY DEF PageTypes, Audible
  <1>6. publish => call \in Call
    BY <1>1, <1>2, <1>3, <1>5 DEF Call
  <1>7. /\ syncs' \subseteq Call
        /\ \/ syncs' = syncs
           \/ \E c \in Call : c.caller = caller /\ syncs' = syncs \cup {c}
    <2>1. CASE publish
      <3>1. call.caller = caller
        OBVIOUS
      <3>2. QED
        BY <1>1, <1>4, <1>6, <2>1, <3>1
    <2>2. CASE ~publish
      BY <1>1, <1>4, <2>2
    <2>3. QED
      BY <2>1, <2>2
  <1>8. published' \subseteq Publication
    <2>1. CASE publish
      BY <1>1, <1>4, <2>1
    <2>2. CASE ~publish
      BY <1>1, <1>4, <1>5, <2>2, MuteTypes
    <2>3. QED
      BY <2>1, <2>2
  <1> HIDE DEF current, publish, call
  <1>9. MixTypes'
    <2>1. nodes' \in Ref /\ context' \in Ref
      BY <1>3, <1>4 DEF Id, Ref
    <2>2. QED
      BY <1>1, <1>4, <1>7, <1>8, <2>1 DEF MixTypes, OutputInv
  <1>10. /\ made' \in [Made -> Nat]
         /\ made'["context"] = IF context = 0 THEN made["context"] + 1 ELSE made["context"]
    BY <1>1, <1>2, <1>4 DEF Made
  <1>11. Created'
    <2>1. made["context"] \in Nat /\ context \in Nat /\ \A c \in closed : c \in Nat
      BY <1>1 DEF Id, Ref
    <2>2. context' <= made'["context"]
      BY <1>1, <1>4, <1>10, <2>1 DEF current
    <2>3. made["context"] <= made'["context"] /\ made'["context"] \in Nat
      BY <1>10, <2>1
    <2>4. ASSUME NEW c \in closed PROVE c <= made'["context"]
      BY <1>1, <2>1, <2>3
    <2>5. QED
      BY <1>4, <2>2, <2>4 DEF Created
  <1>12. closing' # "none" => context' # 0 /\ context' \in closed'
    BY <1>4 DEF OutputInv, Steps, current
  <1>13. QED
    BY <1>2, <1>4, <1>7, <1>9, <1>10, <1>11, <1>12

\* A change of the mix, on the air or off it.
LEMMA MixChanged ==
    ASSUME OutputInv, Press, UNCHANGED <<job, ant>>, PageTypes',
           joins' \in Join, overlaps' \subseteq Overlap, overlaps \subseteq overlaps',
           \/ Sync("mix")
           \/ UNCHANGED <<mixer, mix, made>>
           \/ SetMuted(TRUE) /\ UNCHANGED <<mixer, track, syncs, made>>
    PROVE  OutputInv'
  <1>1. JobTypes' /\ AntTypes' /\ Held'
    BY DEF OutputInv, JobTypes, AntTypes, Held, Unless, ant
  <1>2. CASE Sync("mix")
    <2>1. /\ MixTypes' /\ HistoryTypes'
          /\ Created' /\ closing' = closing
          /\ closing' # "none" => context' # 0 /\ context' \in closed'
          /\ \/ syncs' = syncs
             \/ \E c \in Call : c.caller = "mix" /\ syncs' = syncs \cup {c}
      BY <1>2, SyncTypes DEF HistoryTypes
    <2>2. Steps'
      BY <2>1 DEF Steps, OutputInv
    <2>3. QED
      BY <1>1, <2>1, <2>2 DEF OutputInv
  <1>3. CASE ~Sync("mix")
    <2>1. published' \subseteq Publication /\ UNCHANGED <<mixer, track, syncs, made>>
      BY <1>3, MuteTypes DEF mix, OutputInv, MixTypes
    <2>2. MixTypes' /\ Steps'
      BY <2>1 DEF OutputInv, MixTypes, Steps, mixer
    <2>3. HistoryTypes'
      BY <2>1, OutputAssumption DEF OutputInv, HistoryTypes, Press
    <2>4. Created'
      BY <2>1 DEF OutputInv, HistoryTypes, Created, Press, Made, mixer
    <2>5. QED
      BY <1>1, <2>2, <2>3, <2>4 DEF OutputInv
  <1>4. QED
    BY <1>2, <1>3

\* stopAntMediaOutput reaches whatever is open, but for a player let go of.
LEMMA StopAnt ==
    ASSUME AntTypes, Held, StopAntMediaOutput, overlaps \subseteq overlaps'
    PROVE  AntTypes' /\ Held' /\ adaptors' = {}
  <1>1. adaptors' = {} /\ publisher' = 0 /\ player' = 0 /\ players' \subseteq players
    BY DEF Held, StopAntMediaOutput
  <1>2. Unless({"startedAgain"})' => players' = {}
    BY DEF Held, StopAntMediaOutput, Unless
  <1>3. QED
    BY <1>1, <1>2 DEF AntTypes, Held, Ref

\* destroyAudioMixer closes the context the page has, unless it was closed already.
LEMMA DestroyTypes ==
    ASSUME MixTypes, Steps, HistoryTypes, Created, NEW caller \in {"stop", "leave"},
           Destroy(caller)
    PROVE  /\ nodes' \in Ref /\ closed' \subseteq Id /\ context' = context
           /\ \A c \in closed' : c <= made["context"]
           /\ \/ closing' = closing /\ closed' = closed
              \/ closing = "none" /\ closing' = caller /\ context # 0 /\ context \in closed'
  <1>1. nodes' \in Ref /\ context' = context
    BY DEF Destroy, Ref
  <1>2. CASE CloseRejects \/ context = 0
    BY <1>1, <1>2 DEF Destroy, MixTypes, Created
  <1>3. CASE ~(CloseRejects \/ context = 0)
    <2>1. closing = "none" /\ context # 0
      BY <1>3 DEF Steps, CloseRejects
    <2>2. closed' = closed \cup {context} /\ closing' = caller
      BY <1>3 DEF Destroy
    <2>3. QED
      BY <1>1, <2>1, <2>2 DEF MixTypes, Created, Id, Ref
  <1>4. QED
    BY <1>2, <1>3

\* Every step keeps the types, the count of what was made and the adaptors held.
LEMMA OutputNext ==
    ASSUME OutputInv, Next
    PROVE  OutputInv'
  <1> USE OutputAssumption DEF OutputInv
  <1>1. ASSUME NEW enabled \in BOOLEAN, UpdateAudioMix(enabled) PROVE OutputInv'
    <2>1. PageTypes'
      BY <1>1 DEF UpdateAudioMix, PageTypes, page
    <2>2. joins' \in Join /\ overlaps' \subseteq Overlap /\ overlaps \subseteq overlaps'
      BY <1>1 DEF UpdateAudioMix, HistoryTypes, Note, If, Overlap
    <2>3. QED
      BY <1>1, <2>1, <2>2, MixChanged DEF UpdateAudioMix
  <1>2. ASSUME ToggleProgramAudio PROVE OutputInv'
    <2>1. PageTypes'
      BY <1>2 DEF ToggleProgramAudio, PageTypes, page
    <2>2. joins' \in Join /\ overlaps' \subseteq Overlap /\ overlaps \subseteq overlaps'
      BY <1>2 DEF ToggleProgramAudio, HistoryTypes, Note, If, Overlap
    <2>3. QED
      BY <1>2, <2>1, <2>2, MixChanged DEF ToggleProgramAudio
  <1>3. ASSUME NEW s \in syncs, Published(s) PROVE OutputInv'
    <2>1. PageTypes' /\ JobTypes'
      BY <1>3 DEF Published, PageTypes, JobTypes, Join, Job, NoJob, Id, Ref,
         MixTypes, HistoryTypes, page, intent, mixer, mix, ant, history
    <2>2. HistoryTypes'
      BY <1>3 DEF Published, HistoryTypes, Note, If, Overlap, Press, Join, Made,
         Created, Id, Ref, Quiet, page, intent, mixer, mix, ant, history
    <2>3. Created'
      BY <1>3 DEF Published, Created, Press, Job, NoJob, HistoryTypes, MixTypes,
         Made, Id, Ref, JobTypes, PageTypes, Steps, page, intent, mixer, mix, ant,
         history
    <2>4. MixTypes'
      <3>1. DEFINE p == [id |-> s.id, context |-> s.context, room |-> s.room,
                         muted |-> ~s.audible]
      <3>2. s \in Call
        BY DEF MixTypes
      <3>3. /\ s.id \in Id /\ s.context \in Id
            /\ s.room \in Join \ {0} /\ s.audible \in BOOLEAN
        BY <3>2 DEF Call
      <3>4. p \in Publication
        <4>1. CASE s.audible
          BY <3>3, <4>1 DEF Publication
        <4>2. CASE ~s.audible
          BY <3>3, <4>2 DEF Publication
        <4>3. QED
          BY <4>1, <4>2
      <3>5. /\ published' = published \cup {p} /\ syncs' \subseteq syncs
            /\ track' = s.id /\ UNCHANGED mixer
        BY <1>3 DEF Published
      <3> HIDE DEF p
      <3>6. QED
        BY <3>3, <3>4, <3>5 DEF MixTypes, mixer, Id, Ref
    <2>5. Steps'
      BY <1>3 DEF Published, Steps, Job, NoJob, JobTypes, MixTypes, page, intent,
         mixer, mix, ant, history
    <2>6. AntTypes'
      BY <1>3 DEF Published, AntTypes, Adaptor, HistoryTypes, Created, Made, Id,
         Ref, JobTypes, page, intent, mixer, mix, ant, history
    <2>7. Held'
      BY <1>3 DEF Published, Held, Unless, JobTypes, Job, NoJob, AntTypes, Adaptor,
         page, intent, mixer, mix, ant, history
    <2>8. QED
      BY <2>1, <2>2, <2>3, <2>4, <2>5, <2>6, <2>7
  <1>4. ASSUME NEW s \in syncs, PublishFails(s) PROVE OutputInv'
    <2>1. /\ PageTypes' /\ JobTypes' /\ HistoryTypes' /\ Created'
          /\ MixTypes' /\ Steps' /\ AntTypes' /\ Held'
      BY <1>4 DEF PublishFails, PageTypes, JobTypes, Join, Job, NoJob, Id, Ref,
         MixTypes, HistoryTypes, page, intent, mixer, mix, ant, history, Note, If,
         Overlap, Press, Made, Created, Quiet, Steps, Publication, Call, AntTypes,
         Adaptor, Held, Unless
    <2>2. QED
      BY <2>1
  <1>5. ASSUME StartAntMediaOutput PROVE OutputInv'
    <2>1. PageTypes' /\ JobTypes' /\ HistoryTypes' /\ Created' /\ MixTypes'
      BY <1>5 DEF StartAntMediaOutput, StopAntMediaOutput, PageTypes, JobTypes,
         Join, Job, NoJob, Id, Ref, MixTypes, HistoryTypes, page, intent, mixer,
         mix, ant, history, Note, If, Overlap, Press, Made, Created, Quiet, Steps,
         Publication, Call
    <2>2. Steps' /\ AntTypes' /\ Held'
      BY <1>5 DEF StartAntMediaOutput, StopAntMediaOutput, Steps, Job, NoJob,
         JobTypes, MixTypes, page, intent, mixer, mix, ant, history, AntTypes,
         Adaptor, HistoryTypes, Created, Made, Id, Ref, Held, Unless
    <2>3. QED
      BY <2>1, <2>2
  <1>6. ASSUME AntMediaImported PROVE OutputInv'
    <2>1. /\ job.step = "import" /\ job.kind = "start" /\ made["adaptor"] + 1 \in Id
          /\ job.id \in Id
      BY <1>6 DEF AntMediaImported, HistoryTypes, Made, JobTypes, Steps, Id, Ref
    <2>2. adaptors = {}
      BY <2>1 DEF Held, Unless
    <2>3. /\ made' = [made EXCEPT !["adaptor"] = made["adaptor"] + 1]
          /\ adaptors' = {[id |-> made["adaptor"] + 1, context |-> job.id,
                                       started |-> FALSE]}
          /\ publisher' = made["adaptor"] + 1
          /\ job' = [job EXCEPT !.step = "adaptor", !.id = made["adaptor"] + 1]
          /\ UNCHANGED <<page, intent, mixer, mix, player, players, joins, presses,
                         overlaps>>
      BY <1>6, <2>2 DEF AntMediaImported
    <2>4. job' \in [kind: {"none", "start", "stop"},
                    step: {"none", "mixing", "mixed", "import", "adaptor",
                           "sending", "unpublishing", "closing"}, id: Ref]
          /\ job'.step = "adaptor" /\ job'.kind = "start" /\ job'.id # 0
      BY <2>1, <2>3 DEF JobTypes, Id, Ref
    <2>5. PageTypes' /\ JobTypes'
      BY <2>3, <2>4 DEF PageTypes, JobTypes, page, intent
    <2>6. HistoryTypes' /\ Created'
      BY <2>1, <2>3, <2>4 DEF HistoryTypes, Created, Made, Id, Ref, mixer
    <2>7. MixTypes' /\ Steps'
      BY <2>1, <2>3, <2>4 DEF MixTypes, Steps, mixer, mix, NoJob
    <2>8. AntTypes'
      <3>1. [id |-> made["adaptor"] + 1, context |-> job.id,
                         started |-> FALSE] \in Adaptor
        BY <2>1 DEF Adaptor
      <3>2. QED
        BY <2>1, <2>3, <3>1 DEF AntTypes, Id, Ref
    <2>9. Held'
      BY <2>2, <2>3, <2>4 DEF Held, Unless
    <2>10. QED
      BY <2>5, <2>6, <2>7, <2>8, <2>9
  <1>7. ASSUME NEW a \in adaptors, PublishStarted(a) PROVE OutputInv'
    <2> DEFINE b  == [a EXCEPT !.started = TRUE]
               id == made["player"] + 1
    <2>1. /\ made' = [made EXCEPT !["player"] = id] /\ players' = players \cup {id}
          /\ player' = id /\ adaptors' = (adaptors \ {a}) \cup {b}
          /\ overlaps \subseteq overlaps' /\ overlaps' \subseteq Overlap
          /\ presses' \in 0..MaxPresses
          /\ a.started => "startedAgain" \in overlaps'
          /\ UNCHANGED <<mounted, target, room, intent, mixer, mix, publisher, joins>>
      BY <1>7 DEF PublishStarted, Note, Press, HistoryTypes, Overlap
    <2>2. \/ job.step = "adaptor" /\ job' = NoJob /\ status' = "live"
          \/ UNCHANGED <<job, status>>
      BY <1>7 DEF PublishStarted
    <2>3. /\ b \in Adaptor /\ b.id = a.id /\ b.started = TRUE
          /\ id \in Id /\ adaptors = {a} /\ a.id = publisher
      <3>1. a \in Adaptor /\ a.id = publisher /\ adaptors = {a}
        BY DEF AntTypes, Held, Unless
      <3>2. b \in Adaptor /\ b.id = a.id /\ b.started = TRUE
        BY <3>1 DEF Adaptor
      <3>3. id \in Id
        BY DEF HistoryTypes, Made, Id
      <3>4. QED
        BY <3>1, <3>2, <3>3
    <2> HIDE DEF b, id
    <2>4. PageTypes' /\ JobTypes'
      BY <2>1, <2>2 DEF PageTypes, JobTypes, NoJob, Ref, intent
    <2>5. HistoryTypes' /\ Created'
      <3>1. made' \in [Made -> Nat] /\ made'["context"] = made["context"]
        BY <2>1, <2>3 DEF HistoryTypes, Made, Id
      <3>2. QED
        BY <2>1, <3>1 DEF HistoryTypes, Created, mixer
    <2>6. MixTypes' /\ Steps'
      BY <2>1, <2>2 DEF MixTypes, Steps, NoJob, mixer, mix
    <2>7. AntTypes' /\ adaptors' = {b}
      BY <2>1, <2>3 DEF AntTypes, Id, Ref
    <2>8. Held'
      <3>1. job'.step # "import"
        BY <2>2, <2>3 DEF Held, Unless, NoJob
      <3>2. ASSUME Unless({"startedAgain"})' PROVE players' \subseteq {player'}
        <4>1. Unless({"startedAgain"}) /\ ~a.started
          BY <2>1, <3>2 DEF Unless
        <4>2. players = {}
          BY <2>3, <4>1 DEF Held, Unless
        <4>3. QED
          BY <2>1, <4>2
      <3>3. QED
        BY <2>1, <2>3, <2>7, <3>1, <3>2 DEF Held, Unless
    <2>9. QED
      BY <2>4, <2>5, <2>6, <2>7, <2>8
  <1>8. ASSUME StartBroadcast PROVE OutputInv'
    <2>1. PageTypes' /\ AntTypes'
      BY <1>8 DEF StartBroadcast, PageTypes, AntTypes, page, intent, ant
    <2>2. joins' \in Join /\ overlaps' \subseteq Overlap /\ overlaps \subseteq overlaps'
      BY <1>8 DEF StartBroadcast, HistoryTypes, Note, If, Overlap
    <2>3. /\ Press /\ job = NoJob /\ Sync("start")
          /\ job' = Job("start", IF syncs' = syncs THEN "mixed" ELSE "mixing")
      BY <1>8 DEF StartBroadcast
    <2>4. /\ MixTypes' /\ HistoryTypes'
          /\ Created' /\ closing' = closing
          /\ closing' # "none" => context' # 0 /\ context' \in closed'
          /\ \/ syncs' = syncs
             \/ \E c \in Call : c.caller = "start" /\ syncs' = syncs \cup {c}
      BY <2>1, <2>2, <2>3, SyncTypes DEF HistoryTypes
    <2>5. JobTypes'
      BY <2>3 DEF JobTypes, Job, Ref
    <2>6. Held'
      BY <1>8, <2>2, <2>3 DEF StartBroadcast, Job, Held, Unless, ant
    <2>7. Steps'
      <3>1. \A s \in syncs : s.caller # "start"
        BY <2>3 DEF Steps, NoJob
      <3>2. job.step # "closing" /\ job'.step # "closing"
        BY <2>3 DEF NoJob, Job
      <3>3. CASE syncs' = syncs
        BY <2>3, <2>4, <3>1, <3>2, <3>3 DEF Steps, Job
      <3>4. CASE syncs' # syncs
        BY <2>3, <2>4, <3>1, <3>2, <3>4 DEF Steps, Job
      <3>5. QED
        BY <3>3, <3>4
    <2>8. QED
      BY <2>1, <2>4, <2>5, <2>6, <2>7
  <1>9. ASSUME StartDone PROVE OutputInv'
    <2>1. /\ PageTypes' /\ JobTypes' /\ HistoryTypes' /\ Created'
          /\ MixTypes' /\ Steps' /\ AntTypes' /\ Held'
      BY <1>9 DEF StartDone, PageTypes, JobTypes, Join, Job, NoJob, Id, Ref,
         MixTypes, HistoryTypes, page, intent, mixer, mix, ant, history, Note, If,
         Overlap, Press, Made, Created, Quiet, Steps, Publication, Call, AntTypes,
         Adaptor, Held, Unless
    <2>2. QED
      BY <2>1
  <1>10. ASSUME StartFails PROVE OutputInv'
    <2>1. PageTypes' /\ JobTypes' /\ HistoryTypes' /\ Created' /\ MixTypes'
      BY <1>10 DEF StartFails, StopAntMediaOutput, PageTypes, JobTypes, Join, Job,
         NoJob, Id, Ref, MixTypes, HistoryTypes, page, intent, mixer, mix, ant,
         history, Note, If, Overlap, Press, Made, Created, Quiet, Steps,
         Publication, Call
    <2>2. Steps'
      BY <1>10 DEF StartFails, Steps, NoJob, mixer, mix
    <2>3. AntTypes' /\ Held'
      <3>1. overlaps \subseteq overlaps' /\ job' = NoJob
        BY <1>10 DEF StartFails, Note
      <3>2. CASE target = "antmedia"
        BY <1>10, <3>1, <3>2, StopAnt DEF StartFails
      <3>3. CASE target # "antmedia"
        BY <1>10, <3>1, <3>3 DEF StartFails, ant, AntTypes, Held, Unless, NoJob
      <3>4. QED
        BY <3>2, <3>3
    <2>4. QED
      BY <2>1, <2>2, <2>3
  <1>11. ASSUME StopBroadcast PROVE OutputInv'
    <2>1. /\ job = NoJob /\ job' = Job("stop", "sending")
          /\ overlaps \subseteq overlaps' /\ overlaps' \subseteq Overlap
          /\ UNCHANGED <<page, intent, mixer, mix, joins, presses, made>>
      BY <1>11 DEF StopBroadcast, Note, If, Overlap, HistoryTypes
    <2>2. PageTypes' /\ JobTypes' /\ HistoryTypes'
      BY <2>1 DEF PageTypes, JobTypes, HistoryTypes, Job, Ref, page, intent
    <2>3. Created' /\ MixTypes' /\ Steps'
      BY <2>1 DEF Created, MixTypes, Steps, Job, NoJob, mixer, mix
    <2>4. AntTypes' /\ Held'
      <3>1. CASE target = "antmedia"
        BY <1>11, <2>1, <3>1, StopAnt DEF StopBroadcast
      <3>2. CASE target # "antmedia"
        BY <1>11, <2>1, <3>2 DEF StopBroadcast, ant, AntTypes, Held, Unless, Job
      <3>3. QED
        BY <3>1, <3>2
    <2>5. QED
      BY <2>2, <2>3, <2>4
  <1>12. ASSUME StopUnpublish PROVE OutputInv'
    <2>1. /\ PageTypes' /\ JobTypes' /\ HistoryTypes' /\ Created'
          /\ MixTypes' /\ Steps' /\ AntTypes' /\ Held'
      BY <1>12 DEF StopUnpublish, PageTypes, JobTypes, Join, Job, NoJob, Id, Ref,
         MixTypes, HistoryTypes, page, intent, mixer, mix, ant, history, Note, If,
         Overlap, Press, Made, Created, Quiet, Steps, Publication, Call, AntTypes,
         Adaptor, Held, Unless
    <2>2. QED
      BY <2>1
  <1>13. ASSUME StopMixer PROVE OutputInv'
    <2>1. /\ job.kind = "stop" /\ ~CloseRejects /\ track' = 0 /\ Destroy("stop")
          /\ job.step \in {"sending", "unpublishing"}
          /\ IF context = 0 THEN job' = NoJob /\ status' = "ready"
             ELSE job' = Job("stop", "closing") /\ UNCHANGED status
          /\ UNCHANGED <<mounted, target, room, intent, published, syncs, ant, history>>
      BY <1>13 DEF StopMixer
    <2>2. /\ nodes' \in Ref /\ closed' \subseteq Id /\ context' = context
          /\ \A c \in closed' : c <= made["context"]
          /\ \/ closing' = closing /\ closed' = closed
             \/ closing = "none" /\ closing' = "stop" /\ context # 0 /\ context \in closed'
      BY <2>1, DestroyTypes
    <2>3. PageTypes' /\ JobTypes'
      BY <2>1 DEF PageTypes, JobTypes, Job, NoJob, Id, Ref, intent
    <2>4. HistoryTypes' /\ Created'
      BY <2>1, <2>2 DEF HistoryTypes, Created, Job, NoJob, history
    <2>5. MixTypes'
      BY <2>1, <2>2 DEF MixTypes, Id, Ref
    <2>6. Steps'
      <3>1. CASE context = 0
        BY <2>1, <2>2, <3>1 DEF Steps, NoJob
      <3>2. CASE context # 0
        <4>1. closing' = "stop" /\ context \in closed' /\ job' = Job("stop", "closing")
          BY <2>1, <3>2 DEF Destroy, CloseRejects
        <4>2. QED
          BY <2>1, <2>2, <3>2, <4>1 DEF Steps, Job
      <3>3. QED
        BY <3>1, <3>2
    <2>7. AntTypes' /\ Held'
      BY <2>1 DEF AntTypes, Held, Unless, history, ant, Job, NoJob
    <2>8. QED
      BY <2>3, <2>4, <2>5, <2>6, <2>7
  <1>14. ASSUME StopThrows PROVE OutputInv'
    <2>1. /\ PageTypes' /\ JobTypes' /\ HistoryTypes' /\ Created'
          /\ MixTypes' /\ Steps' /\ AntTypes' /\ Held'
      BY <1>14 DEF StopThrows, CloseRejects, PageTypes, JobTypes, Join, Job, NoJob,
         Id, Ref, MixTypes, HistoryTypes, page, intent, mixer, mix, ant, history,
         Note, If, Overlap, Press, Made, Created, Quiet, Steps, Publication, Call,
         AntTypes, Adaptor, Held, Unless
    <2>2. QED
      BY <2>1
  <1>15. ASSUME StopFails PROVE OutputInv'
    <2>1. /\ PageTypes' /\ JobTypes' /\ HistoryTypes' /\ Created'
          /\ MixTypes' /\ Steps' /\ AntTypes' /\ Held'
      BY <1>15 DEF StopFails, PageTypes, JobTypes, Join, Job, NoJob, Id, Ref,
         MixTypes, HistoryTypes, page, intent, mixer, mix, ant, history, Note, If,
         Overlap, Press, Made, Created, Quiet, Steps, Publication, Call, AntTypes,
         Adaptor, Held, Unless
    <2>2. QED
      BY <2>1
  <1>16. ASSUME MixerClosed PROVE OutputInv'
    <2>1. /\ PageTypes' /\ JobTypes' /\ HistoryTypes' /\ Created'
          /\ MixTypes' /\ Steps' /\ AntTypes' /\ Held'
      BY <1>16 DEF MixerClosed, PageTypes, JobTypes, Join, Job, NoJob, Id, Ref,
         MixTypes, HistoryTypes, page, intent, mixer, mix, ant, history, Note, If,
         Overlap, Press, Made, Created, Quiet, Steps, Publication, Call, AntTypes,
         Adaptor, Held, Unless
    <2>2. QED
      BY <2>1
  <1>17. ASSUME NEW t \in {"livekit", "antmedia"}, ConnectStudio(t) PROVE OutputInv'
    <2>1. /\ PageTypes' /\ JobTypes' /\ HistoryTypes' /\ Created'
          /\ MixTypes' /\ Steps' /\ AntTypes' /\ Held'
      BY <1>17 DEF ConnectStudio, PageTypes, JobTypes, Join, Job, NoJob, Id, Ref,
         MixTypes, HistoryTypes, page, intent, mixer, mix, ant, history, Note, If,
         Overlap, Press, Made, Created, Quiet, Steps, Publication, Call, AntTypes,
         Adaptor, Held, Unless
    <2>2. QED
      BY <2>1
  <1>18. ASSUME LeaveStudio PROVE OutputInv'
    <2>1. /\ StopAntMediaOutput /\ Destroy("leave")
          /\ published' = {p \in published : p.room # room}
          /\ track' = 0 /\ room' = 0 /\ selected' = FALSE /\ status' = "idle"
          /\ Note(If("leaveInFlight", ~Quiet))
          /\ UNCHANGED <<mounted, target, job, programAudio, syncs, joins, presses,
                         made>>
      BY <1>18 DEF LeaveStudio
    <2>2. /\ nodes' \in Ref /\ closed' \subseteq Id /\ context' = context
          /\ \A c \in closed' : c <= made["context"]
          /\ \/ closing' = closing /\ closed' = closed
             \/ closing = "none" /\ closing' = "leave" /\ context # 0 /\ context \in closed'
      BY <2>1, DestroyTypes
    <2>3. PageTypes'
      <3>1. selected' \in BOOLEAN /\ programAudio' \in BOOLEAN /\ mounted' \in BOOLEAN
        BY <2>1 DEF PageTypes
      <3>2. room' \in Join
        BY <2>1 DEF Join
      <3>3. QED
        BY <2>1, <3>1, <3>2 DEF PageTypes
    <2>4. HistoryTypes' /\ Created' /\ JobTypes'
      BY <2>1, <2>2 DEF HistoryTypes, Created, JobTypes, Note, If, Overlap
    <2>5. MixTypes'
      BY <2>1, <2>2 DEF MixTypes, Id, Ref
    <2>6. Steps'
      BY <2>1, <2>2 DEF Steps
    <2>7. AntTypes' /\ Held'
      BY <2>1, StopAnt DEF Note
    <2>8. QED
      BY <2>3, <2>4, <2>5, <2>6, <2>7
  <1>19. ASSUME Unmount PROVE OutputInv'
    <2>1. PageTypes' /\ JobTypes' /\ HistoryTypes'
      BY <1>19 DEF Unmount, StopAntMediaOutput, PageTypes, JobTypes, Join, Job,
         NoJob, Id, Ref, MixTypes, HistoryTypes, page, intent, mixer, mix, ant,
         history, Note, If, Overlap, Press, Made, Created, Quiet
    <2>2. Created' /\ MixTypes' /\ Steps'
      BY <1>19 DEF Unmount, Created, HistoryTypes, MixTypes, Made, Id, Ref, Steps
    <2>3. AntTypes' /\ Held'
      BY <1>19, StopAnt DEF Unmount, Note
    <2>4. QED
      BY <2>1, <2>2, <2>3
  <1>20. QED
    BY <1>1, <1>2, <1>3, <1>4, <1>5, <1>6, <1>7, <1>8, <1>9, <1>10, <1>11, <1>12,
       <1>13, <1>14, <1>15, <1>16, <1>17, <1>18, <1>19 DEF Next

\* What the page is told of stays told, and a closed page does not come back.
LEMMA Onward ==
    ASSUME Next
    PROVE  overlaps \subseteq overlaps' /\ (mounted' => mounted)
  <1>1. ASSUME NEW enabled \in BOOLEAN, UpdateAudioMix(enabled)
        PROVE  overlaps \subseteq overlaps' /\ (mounted' => mounted)
    BY <1>1 DEF UpdateAudioMix, Note, page
  <1>2. CASE ToggleProgramAudio
    BY <1>2 DEF ToggleProgramAudio, Note, page
  <1>3. ASSUME NEW s \in syncs, Published(s)
        PROVE  overlaps \subseteq overlaps' /\ (mounted' => mounted)
    BY <1>3 DEF Published, page, history
  <1>4. ASSUME NEW s \in syncs, PublishFails(s)
        PROVE  overlaps \subseteq overlaps' /\ (mounted' => mounted)
    BY <1>4 DEF PublishFails, Note, page
  <1>5. CASE StartAntMediaOutput
    BY <1>5 DEF StartAntMediaOutput, page, history
  <1>6. CASE AntMediaImported
    BY <1>6 DEF AntMediaImported, page
  <1>7. ASSUME NEW a \in adaptors, PublishStarted(a)
        PROVE  overlaps \subseteq overlaps' /\ (mounted' => mounted)
    BY <1>7 DEF PublishStarted, Note
  <1>8. CASE StartBroadcast
    BY <1>8 DEF StartBroadcast, Note, page
  <1>9. CASE StartDone
    BY <1>9 DEF StartDone, history
  <1>10. CASE StartFails
    BY <1>10 DEF StartFails, Note, page
  <1>11. CASE StopBroadcast
    BY <1>11 DEF StopBroadcast, Note, page
  <1>12. CASE StopUnpublish
    BY <1>12 DEF StopUnpublish, page, history
  <1>13. CASE StopMixer
    BY <1>13 DEF StopMixer, history
  <1>14. CASE StopThrows
    BY <1>14 DEF StopThrows, page, history
  <1>15. CASE StopFails
    BY <1>15 DEF StopFails, Note, page
  <1>16. CASE MixerClosed
    BY <1>16 DEF MixerClosed, history
  <1>17. ASSUME NEW t \in {"livekit", "antmedia"}, ConnectStudio(t)
         PROVE  overlaps \subseteq overlaps' /\ (mounted' => mounted)
    BY <1>17 DEF ConnectStudio
  <1>18. CASE LeaveStudio
    BY <1>18 DEF LeaveStudio, Note
  <1>19. CASE Unmount
    BY <1>19 DEF Unmount, Note
  <1>20. QED
    BY <1>1, <1>2, <1>3, <1>4, <1>5, <1>6, <1>7, <1>8, <1>9, <1>10, <1>11, <1>12,
       <1>13, <1>14, <1>15, <1>16, <1>17, <1>18, <1>19 DEF Next

\* Sync has a context from then on: the one in use, or one that was never closed.
LEMMA SyncContext ==
    ASSUME OutputInv, NEW caller, Sync(caller)
    PROVE  /\ context' # 0 /\ (context # 0 => context' = context)
           /\ context = 0 \/ context \notin closed => context' \notin closed'
           /\ UNCHANGED <<closed, closing, track>>
           /\ target = "antmedia" => UNCHANGED syncs
           /\ nodes' = IF Audible' THEN context' ELSE 0
  <1>1. made["context"] \in Nat /\ made["context"] + 1 # 0
    BY DEF OutputInv, HistoryTypes, Made
  <1>2. made["context"] + 1 \notin closed
    BY <1>1 DEF OutputInv, Created, MixTypes, Id, Ref
  <1>3. QED
    BY <1>1, <1>2 DEF Sync

\* Every step keeps what ties a session to its adaptor, unless it overlaps another.
LEMMA SessionStep ==
    ASSUME OutputInv, Session, Next, mounted, mounted', Unless(Disturbed)'
    PROVE  Session'
  <1> USE DEF Session
  <1>1. ASSUME NEW enabled \in BOOLEAN, UpdateAudioMix(enabled) PROVE Session'
    <2>1. UNCHANGED <<page, job, ant, context, closed, closing, track>>
      BY <1>1, SyncContext DEF UpdateAudioMix, mixer, mix
    <2>2. QED
      BY <2>1 DEF page, ant
  <1>2. CASE ToggleProgramAudio
    <2>1. UNCHANGED <<page, job, ant, context, closed, closing, track>>
      BY <1>2, SyncContext DEF ToggleProgramAudio, mixer, mix
    <2>2. QED
      BY <2>1 DEF page, ant
  <1>3. ASSUME NEW s \in syncs, Published(s) PROVE Session'
    <2>1. CASE s.caller = "start"
      <3>1. job.kind = "start" /\ job.step = "mixing" /\ syncs # {}
        BY <2>1 DEF OutputInv, Steps, NoJob
      <3>2. job'.kind = "start" /\ job'.step = "mixed" /\ job' # NoJob
        BY <1>3, <2>1, <3>1 DEF Published, OutputInv, JobTypes, NoJob
      <3>3. UNCHANGED <<page, mixer, ant>>
        BY <1>3 DEF Published
      <3>4. QED
        BY <3>1, <3>2, <3>3 DEF page, mixer, ant
    <2>2. CASE s.caller # "start"
      <3>1. UNCHANGED <<page, job, mixer, ant>>
        BY <1>3, <2>2 DEF Published
      <3>2. job.step = "unpublishing" => track' # 0
        BY <1>3 DEF Published, OutputInv, MixTypes, Call, Id
      <3>3. QED
        BY <3>1, <3>2 DEF page, mixer, ant
    <2>3. QED
      BY <2>1, <2>2
  <1>4. ASSUME NEW s \in syncs, PublishFails(s) PROVE Session'
    BY <1>4 DEF PublishFails, Unless, Disturbed, Note, NoJob, page, intent, mixer,
       ant, OutputInv, Steps, Held
  <1>5. CASE StartAntMediaOutput
    BY <1>5 DEF StartAntMediaOutput, StopAntMediaOutput, Unless, Disturbed, NoJob,
       page, intent, mixer, mix, ant, history, OutputInv, Steps, Held
  <1>6. CASE AntMediaImported
    BY <1>6 DEF AntMediaImported, Unless, Disturbed, NoJob, page, intent, mixer,
       mix, ant, OutputInv, Steps, Held
  <1>7. ASSUME NEW a \in adaptors, PublishStarted(a) PROVE Session'
    BY <1>7 DEF PublishStarted, Unless, Disturbed, NoJob, page, intent, mixer, mix,
       ant, OutputInv, Steps, Held
  <1>8. CASE StartBroadcast
    <2>1. /\ status = "ready" /\ job = NoJob /\ Sync("start") /\ closing = "none"
          /\ job'.kind = "start" /\ job'.step \in {"mixing", "mixed"}
          /\ job'.step = "mixing" => syncs' # syncs
          /\ UNCHANGED <<page, ant>>
      BY <1>8 DEF StartBroadcast, Job, Unless, Disturbed, Note, If
    <2>2. QED
      BY <2>1, SyncContext DEF NoJob, page, ant, OutputInv, PageTypes
  <1>9. CASE StartDone
    BY <1>9 DEF StartDone, Unless, Disturbed, NoJob, page, intent, mixer, mix, ant,
       history, OutputInv, Steps, Held
  <1>10. CASE StartFails
    BY <1>10 DEF StartFails, StopAntMediaOutput, Unless, Disturbed, Note, NoJob,
       page, intent, mixer, mix, ant, OutputInv, Steps, Held
  <1>11. CASE StopBroadcast
    BY <1>11 DEF StopBroadcast, StopAntMediaOutput, Unless, Disturbed, Note, If,
       Job, NoJob, page, intent, mixer, mix, ant, OutputInv, Steps, Held
  <1>12. CASE StopUnpublish
    BY <1>12 DEF StopUnpublish, Unless, Disturbed, Job, NoJob, page, intent, mixer,
       ant, history, OutputInv, Steps, Held
  <1>13. CASE StopMixer
    BY <1>13 DEF StopMixer, Destroy, CloseRejects, Unless, Disturbed, Job, NoJob,
       page, intent, mixer, ant, history, OutputInv, Steps, Held
  <1>14. CASE StopThrows
    <2>1. CASE job.step = "unpublishing" /\ track = 0
      BY <2>1
    <2>2. CASE job.step \in {"sending", "unpublishing"} /\ CloseRejects
      BY <1>14, <2>2 DEF StopThrows, CloseRejects, OutputInv, Steps, MixTypes, NoJob
    <2>3. QED
      BY <1>14, <2>1, <2>2 DEF StopThrows
  <1>15. CASE StopFails
    BY <1>15 DEF StopFails, Unless, Disturbed, Note, NoJob, page, intent, mixer,
       mix, ant, OutputInv, Steps, Held
  <1>16. CASE MixerClosed
    <2>1. CASE closing = "stop"
      <3>1. job.kind = "stop" /\ job.step = "closing"
        BY <2>1 DEF OutputInv, Steps, NoJob
      <3>2. QED
        BY <1>16, <2>1, <3>1 DEF MixerClosed, mix, ant, NoJob
    <2>2. CASE closing # "stop"
      <3>1. closing = "leave"
        BY <1>16, <2>2 DEF MixerClosed, OutputInv, MixTypes
      <3>2. QED
        BY <1>16, <3>1 DEF MixerClosed, mix, ant, NoJob
    <2>3. QED
      BY <2>1, <2>2
  <1>17. ASSUME NEW t \in {"livekit", "antmedia"}, ConnectStudio(t) PROVE Session'
    <2>1. joins + 1 # 0
      BY DEF OutputInv, HistoryTypes, Join
    <2>2. job = NoJob
      BY <1>17 DEF ConnectStudio, OutputInv, Steps
    <2>3. QED
      BY <1>17, <2>1, <2>2 DEF ConnectStudio, NoJob, mixer, mix, ant
  <1>18. CASE LeaveStudio
    <2>1. Quiet
      BY <1>18 DEF LeaveStudio, Unless, Disturbed, Note, If
    <2>2. /\ StopAntMediaOutput /\ Destroy("leave") /\ room' = 0 /\ status' = "idle"
          /\ UNCHANGED job
      BY <1>18 DEF LeaveStudio
    <2>3. adaptors' = {}
      BY <1>18, <2>2, StopAnt DEF OutputInv, LeaveStudio, Note
    <2>4. /\ context' = context
          /\ \/ context = 0 /\ closing' = "none"
             \/ closing' = "leave"
      BY <2>1, <2>2 DEF Destroy, CloseRejects, Quiet
    <2>5. QED
      BY <2>1, <2>2, <2>3, <2>4 DEF Quiet, NoJob
  <1>19. CASE Unmount
    BY <1>19 DEF Unmount, StopAntMediaOutput, Unless, Disturbed, Note, If, NoJob,
       page, intent, mixer, ant, OutputInv, Steps, Held
  <1>20. QED
    BY <1>1, <1>2, <1>3, <1>4, <1>5, <1>6, <1>7, <1>8, <1>9, <1>10, <1>11, <1>12,
       <1>13, <1>14, <1>15, <1>16, <1>17, <1>18, <1>19 DEF Next

\* A mute changes nothing else of what is published.
LEMMA MutedMix ==
    ASSUME NEW flag, SetMuted(flag), published \subseteq Publication
    PROVE  /\ published = {} => published' = {}
           /\ \A q \in published' : \E p \in published : q.id = p.id /\ q.room = p.room
  <1>1. \A p \in published : [p EXCEPT !.muted = flag].id = p.id
                             /\ [p EXCEPT !.muted = flag].room = p.room
    BY DEF Publication
  <1>2. QED
    BY <1>1 DEF SetMuted

\* Sync publishes the mix once, and mutes it from then on.
LEMMA SyncMix ==
    ASSUME NEW caller, Sync(caller)
    PROVE  IF target = "livekit" /\ track = 0 /\ room # 0
           THEN /\ UNCHANGED published
                /\ syncs' = syncs \cup
                      {[caller |-> caller, id |-> made["track"] + 1,
                                                       context |-> context',
                        room |-> room, audible |-> Audible']}
           ELSE SetMuted(~Audible') /\ UNCHANGED syncs
  BY DEF Sync

\* No step of a page that nothing has disturbed makes Stop throw.
LEMMA StopFinds ==
    ASSUME OutputInv, Session, StopThrows
    PROVE  FALSE
  <1>1. CASE job.step = "unpublishing" /\ track = 0
    BY <1>1 DEF Session
  <1>2. CASE job.step \in {"sending", "unpublishing"} /\ CloseRejects
    BY <1>2 DEF StopThrows, CloseRejects, OutputInv, Steps, MixTypes, NoJob, Session
  <1>3. QED
    BY <1>1, <1>2 DEF StopThrows

\* Every step keeps the mix the session publishes to the one the page holds.
LEMMA MixStep ==
    ASSUME OutputInv, Session, Mix, Next, mounted, mounted',
           Unless(Disturbed \cup {"mixInStop"})'
    PROVE  Mix'
  <1> USE DEF Mix
  <1>1. ASSUME NEW enabled \in BOOLEAN, UpdateAudioMix(enabled) PROVE Mix'
    <2>1. /\ UNCHANGED <<page, job, ant>> /\ job.kind # "stop"
          /\ IF status = "live" THEN Sync("mix") ELSE UNCHANGED <<mixer, mix, made>>
      BY <1>1 DEF UpdateAudioMix, Unless, Disturbed, Note, If
    <2>2. CASE status = "live"
      <3>1. job = NoJob /\ ~(target = "livekit" /\ track = 0)
        BY <2>1, <2>2 DEF OutputInv, Steps, Session
      <3>2. SetMuted(~Audible') /\ UNCHANGED <<track, syncs>>
        BY <2>1, <2>2, <3>1, SyncMix, SyncContext
      <3>3. QED
        BY <2>1, <3>2, MutedMix DEF page, OutputInv, MixTypes
    <2>3. CASE status # "live"
      BY <2>1, <2>3 DEF page, mix
    <2>4. QED
      BY <2>2, <2>3
  <1>2. CASE ToggleProgramAudio
    <2>1. /\ UNCHANGED <<page, job, ant>> /\ job.kind # "stop"
          /\ \/ status # "live" /\ UNCHANGED mix
             \/ SetMuted(TRUE) /\ UNCHANGED <<track, syncs>>
             \/ status = "live" /\ Sync("mix")
      BY <1>2 DEF ToggleProgramAudio, Unless, Disturbed, Note, If
    <2>2. CASE status = "live" /\ Sync("mix")
      <3>1. job = NoJob /\ ~(target = "livekit" /\ track = 0)
        BY <2>1, <2>2 DEF OutputInv, Steps, Session
      <3>2. SetMuted(~Audible') /\ UNCHANGED <<track, syncs>>
        BY <2>2, <3>1, SyncMix, SyncContext
      <3>3. QED
        BY <2>1, <3>2, MutedMix DEF page, OutputInv, MixTypes
    <2>3. CASE SetMuted(TRUE) /\ UNCHANGED <<track, syncs>>
      BY <2>1, <2>3, MutedMix DEF page, OutputInv, MixTypes
    <2>4. CASE UNCHANGED mix
      BY <2>1, <2>4 DEF page, mix
    <2>5. QED
      BY <2>1, <2>2, <2>3, <2>4
  <1>3. ASSUME NEW s \in syncs, Published(s) PROVE Mix'
    <2>1. s.caller = "start" /\ syncs = {s} /\ job.step = "mixing" /\ job.kind = "start"
      BY DEF OutputInv, Steps, NoJob
    <2>2. track = 0 /\ target = "livekit" /\ published = {}
      BY <2>1 DEF Session
    <2>3. /\ job'.step = "mixed" /\ job'.kind = "start" /\ syncs' = {} /\ track' = s.id
          /\ published' = {[id |-> s.id, context |-> s.context, room |-> room,
                            muted |-> ~s.audible]}
          /\ UNCHANGED page
      BY <1>3, <2>1, <2>2 DEF Published, OutputInv, JobTypes
    <2>4. s.id # 0
      BY DEF OutputInv, MixTypes, Call, Id
    <2>5. QED
      BY <2>2, <2>3, <2>4 DEF page, NoJob
  <1>4. ASSUME NEW s \in syncs, PublishFails(s) PROVE Mix'
    BY <1>4 DEF PublishFails, Unless, Disturbed, Note, Job, NoJob, page, intent,
       mixer, mix, ant, OutputInv, Steps, Session
  <1>5. CASE StartAntMediaOutput
    BY <1>5 DEF StartAntMediaOutput, StopAntMediaOutput, Unless, Disturbed, Job,
       NoJob, page, intent, mixer, mix, ant, history, OutputInv, Steps, Session
  <1>6. CASE AntMediaImported
    BY <1>6 DEF AntMediaImported, Unless, Disturbed, Job, NoJob, page, intent,
       mixer, mix, ant, OutputInv, Steps, Session
  <1>7. ASSUME NEW a \in adaptors, PublishStarted(a) PROVE Mix'
    BY <1>7 DEF PublishStarted, Unless, Disturbed, Job, NoJob, page, intent, mixer,
       mix, ant, OutputInv, Steps, Session
  <1>8. CASE StartBroadcast
    <2>1. /\ job = NoJob /\ status = "ready" /\ room # 0 /\ Sync("start")
          /\ job' = Job("start", IF syncs' = syncs THEN "mixed" ELSE "mixing")
          /\ UNCHANGED page
      BY <1>8 DEF StartBroadcast
    <2>2. track = 0 /\ track' = 0 /\ published = {} /\ syncs = {}
      <3>1. \A s \in syncs : FALSE
        BY <2>1 DEF OutputInv, Steps, NoJob
      <3>2. QED
        BY <2>1, <3>1, SyncContext
    <2>3. CASE target = "livekit"
      <3>1. /\ published' = {}
            /\ syncs' = {[caller |-> "start", id |-> made["track"] + 1,
                                                          context |-> context',
                          room |-> room, audible |-> Audible']}
        BY <2>1, <2>2, <2>3, SyncMix
      <3>2. job' = Job("start", "mixing")
        BY <2>1, <2>2, <3>1
      <3>3. QED
        BY <2>2, <2>3, <3>1, <3>2 DEF Job, NoJob
    <2>4. CASE target # "livekit"
      <3>1. published' = {} /\ syncs' = {}
        BY <2>1, <2>2, <2>4, SyncMix, MutedMix DEF OutputInv, MixTypes
      <3>2. target' # "livekit" /\ job' = Job("start", "mixed")
        BY <2>1, <2>2, <2>4, <3>1 DEF page
      <3>3. QED
        BY <2>2, <3>1, <3>2 DEF Job, NoJob
    <2>5. QED
      BY <2>3, <2>4
  <1>9. CASE StartDone
    BY <1>9 DEF StartDone, Unless, Disturbed, Job, NoJob, page, intent, mixer, mix,
       ant, history, OutputInv, Steps, Session
  <1>10. CASE StartFails
    BY <1>10 DEF StartFails, StopAntMediaOutput, Unless, Disturbed, Note, Job,
       NoJob, page, intent, mixer, mix, ant, OutputInv, Steps, Session
  <1>11. CASE StopBroadcast
    BY <1>11 DEF StopBroadcast, StopAntMediaOutput, Unless, Disturbed, Note, If,
       Job, NoJob, page, intent, mixer, mix, ant, OutputInv, Steps, Session
  <1>12. CASE StopUnpublish
    BY <1>12 DEF StopUnpublish, Unless, Disturbed, Job, NoJob, page, intent, mixer,
       mix, ant, history, OutputInv, Steps, Session
  <1>13. CASE StopMixer
    BY <1>13 DEF StopMixer, Destroy, CloseRejects, Unless, Disturbed, Job, NoJob,
       page, intent, mixer, mix, ant, history, OutputInv, Steps, Session
  <1>14. CASE StopThrows
    BY <1>14, StopFinds
  <1>15. CASE StopFails
    BY <1>15 DEF StopFails, Unless, Disturbed, Note, Job, NoJob, page, intent,
       mixer, mix, ant, OutputInv, Steps, Session
  <1>16. CASE MixerClosed
    BY <1>16 DEF MixerClosed, Unless, Disturbed, Job, NoJob, page, intent, mixer,
       mix, ant, history, OutputInv, Steps, Session
  <1>17. ASSUME NEW t \in {"livekit", "antmedia"}, ConnectStudio(t) PROVE Mix'
    BY <1>17 DEF ConnectStudio, Unless, Disturbed, Job, NoJob, page, intent, mixer,
       mix, ant, OutputInv, Steps, Session
  <1>18. CASE LeaveStudio
    BY <1>18 DEF LeaveStudio, Destroy, CloseRejects, StopAntMediaOutput, Unless,
       Disturbed, Note, If, Job, NoJob, page, mixer, mix, ant, OutputInv, Steps,
       Session, Quiet
  <1>19. CASE Unmount
    BY <1>19 DEF Unmount, StopAntMediaOutput, Unless, Disturbed, Note, If, Job,
       NoJob, page, intent, mixer, mix, ant, OutputInv, Steps, Session, Quiet
  <1>20. QED
    BY <1>1, <1>2, <1>3, <1>4, <1>5, <1>6, <1>7, <1>8, <1>9, <1>10, <1>11, <1>12,
       <1>13, <1>14, <1>15, <1>16, <1>17, <1>18, <1>19 DEF Next

\* The one mix that is published, after a mute.
LEMMA MutedOne ==
    ASSUME NEW flag, NEW c, NEW r, NEW m, SetMuted(flag),
           published = {[id |-> track, context |-> c, room |-> r, muted |-> m]}
    PROVE  published' = {[id |-> track, context |-> c, room |-> r, muted |-> flag]}
  BY DEF SetMuted

\* Every step keeps the programme sound in the mix while the page asks for it.
LEMMA HeardStep ==
    ASSUME OutputInv, Session, Mix, Heard, Next, mounted, mounted',
           Unless(Disturbed \cup {"mixInStop", "mixInStart"})'
    PROVE  Heard'
  <1> USE DEF Heard
  <1>1. ASSUME NEW enabled \in BOOLEAN, UpdateAudioMix(enabled) PROVE Heard'
    <2>1. /\ UNCHANGED <<page, job>> /\ job = NoJob
          /\ IF status = "live" THEN Sync("mix") ELSE UNCHANGED <<mixer, mix, made>>
      BY <1>1 DEF UpdateAudioMix, Unless, Disturbed, Note, If, OutputInv, Steps
    <2>2. syncs = {}
      BY <2>1 DEF NoJob, Mix, OutputInv, Steps
    <2>3. CASE status = "live"
      <3>1. /\ SetMuted(~Audible') /\ UNCHANGED <<track, syncs>> /\ context' = context
            /\ nodes' = IF Audible' THEN context ELSE 0
        BY <2>1, <2>3, SyncMix, SyncContext DEF Mix, Session
      <3>2. CASE track # 0
        BY <2>1, <2>2, <3>1, <3>2, MutedOne DEF page, NoJob
      <3>3. CASE track = 0
        BY <2>2, <3>1, <3>3
      <3>4. QED
        BY <3>2, <3>3
    <2>4. CASE status # "live"
      BY <2>1, <2>2, <2>4 DEF mix, Mix
    <2>5. QED
      BY <2>3, <2>4
  <1>2. CASE ToggleProgramAudio
    <2>1. /\ UNCHANGED <<page, job>> /\ job = NoJob
          /\ programAudio' = ~programAudio
          /\ \/ status # "live" /\ UNCHANGED mix
             \/ /\ status = "live" /\ programAudio
                /\ SetMuted(TRUE) /\ UNCHANGED <<mixer, track, syncs>>
             \/ status = "live" /\ Sync("mix")
      BY <1>2 DEF ToggleProgramAudio, Unless, Disturbed, Note, If, OutputInv, Steps
    <2>2. syncs = {}
      BY <2>1 DEF NoJob, Mix, OutputInv, Steps
    <2>3. CASE status = "live" /\ Sync("mix")
      <3>1. /\ SetMuted(~Audible') /\ UNCHANGED <<track, syncs>> /\ context' = context
            /\ nodes' = IF Audible' THEN context ELSE 0
        BY <2>1, <2>3, SyncMix, SyncContext DEF Mix, Session
      <3>2. CASE track # 0
        BY <2>1, <2>2, <3>1, <3>2, MutedOne DEF page, NoJob
      <3>3. CASE track = 0
        BY <2>2, <3>1, <3>3
      <3>4. QED
        BY <3>2, <3>3
    <2>4. CASE programAudio /\ SetMuted(TRUE) /\ UNCHANGED <<mixer, track, syncs>>
      <3>1. ~Audible'
        BY <2>1, <2>4 DEF Audible
      <3>2. CASE track # 0
        <4>1. published' = {[id |-> track, context |-> context, room |-> room,
                             muted |-> TRUE]}
          BY <2>1, <2>4, <3>2, MutedOne DEF NoJob
        <4>2. (~Audible') = TRUE
          BY <3>1
        <4>3. QED
          BY <2>1, <2>2, <2>4, <3>1, <4>1, <4>2 DEF page, mixer
      <3>3. CASE track = 0
        BY <2>2, <2>4, <3>3
      <3>4. QED
        BY <3>2, <3>3
    <2>5. CASE status # "live" /\ UNCHANGED mix
      BY <2>1, <2>2, <2>5 DEF mix, Mix
    <2>6. QED
      BY <2>1, <2>3, <2>4, <2>5
  <1>3. ASSUME NEW s \in syncs, Published(s) PROVE Heard'
    <2>1. s.caller = "start" /\ syncs = {s} /\ job.step = "mixing"
      BY DEF OutputInv, Steps, Mix
    <2>2. track = 0 /\ published = {}
      BY <2>1 DEF Mix
    <2>3. /\ syncs' = {} /\ track' = s.id
          /\ published' = {[id |-> s.id, context |-> s.context, room |-> room,
                            muted |-> ~s.audible]}
          /\ UNCHANGED <<page, intent, mixer>>
      BY <1>3, <2>1, <2>2 DEF Published
    <2>4. QED
      BY <2>3 DEF page, intent, mixer, Audible
  <1>4. ASSUME NEW s \in syncs, PublishFails(s) PROVE Heard'
    BY <1>4 DEF PublishFails, Note, Unless, Disturbed
  <1>5. CASE StartAntMediaOutput
    <2>1. UNCHANGED <<track, published, syncs, context, room, nodes, programAudio,
                      selected>>
      BY <1>5 DEF StartAntMediaOutput, page, intent, mixer, mix, history
    <2>2. job'.kind # "stop" => job.kind # "stop"
      BY <1>5 DEF StartAntMediaOutput, NoJob, OutputInv, JobTypes, Steps
    <2>3. QED
      BY <2>1, <2>2 DEF Audible
  <1>6. CASE AntMediaImported
    <2>1. UNCHANGED <<track, published, syncs, context, room, nodes, programAudio,
                      selected>>
      BY <1>6 DEF AntMediaImported, page, intent, mixer, mix
    <2>2. job'.kind # "stop" => job.kind # "stop"
      BY <1>6 DEF AntMediaImported, NoJob, OutputInv, JobTypes, Steps
    <2>3. QED
      BY <2>1, <2>2 DEF Audible
  <1>7. ASSUME NEW a \in adaptors, PublishStarted(a) PROVE Heard'
    <2>1. UNCHANGED <<track, published, syncs, context, room, nodes, programAudio,
                      selected>>
      BY <1>7 DEF PublishStarted, page, intent, mixer, mix
    <2>2. job'.kind # "stop" => job.kind # "stop"
      BY <1>7 DEF PublishStarted, NoJob, OutputInv, JobTypes, Steps
    <2>3. QED
      BY <2>1, <2>2 DEF Audible
  <1>8. CASE StartBroadcast
    <2>1. /\ job = NoJob /\ status = "ready" /\ room # 0
          /\ Sync("start") /\ UNCHANGED <<page, intent>>
      BY <1>8 DEF StartBroadcast, intent
    <2>2. track = 0 /\ track' = 0 /\ syncs = {}
      <3>1. \A s \in syncs : FALSE
        BY <2>1 DEF OutputInv, Steps, NoJob, Mix
      <3>2. QED
        BY <2>1, <3>1, SyncContext DEF Mix
    <2>3. made["track"] + 1 # 0
      BY DEF OutputInv, HistoryTypes, Made
    <2>4. nodes' = IF Audible' THEN context' ELSE 0
      BY <2>1, SyncContext
    <2>5. CASE target = "livekit"
      <3>1. syncs' = {[caller |-> "start", id |-> made["track"] + 1,
                                                       context |-> context',
                       room |-> room, audible |-> Audible']}
        BY <2>1, <2>2, <2>5, SyncMix
      <3>2. room' = room
        BY <2>1 DEF page
      <3>3. QED
        BY <2>2, <2>3, <2>4, <3>1, <3>2
    <2>6. CASE target # "livekit"
      <3>1. syncs' = {}
        BY <2>1, <2>2, <2>6, SyncMix
      <3>2. QED
        BY <2>2, <3>1
    <2>7. QED
      BY <2>5, <2>6
  <1>9. CASE StartDone
    <2>1. UNCHANGED <<track, published, syncs, context, room, nodes, programAudio,
                      selected>>
      BY <1>9 DEF StartDone, page, intent, mixer, mix, ant, history
    <2>2. job'.kind # "stop" => job.kind # "stop"
      BY <1>9 DEF StartDone, NoJob, OutputInv, JobTypes, Steps
    <2>3. QED
      BY <2>1, <2>2 DEF Audible
  <1>10. CASE StartFails
    BY <1>10 DEF StartFails, Note, Unless, Disturbed
  <1>11. CASE StopBroadcast
    <2>1. UNCHANGED <<track, published, syncs, context, room, nodes, programAudio,
                      selected>>
      BY <1>11 DEF StopBroadcast, page, intent, mixer, mix, ant
    <2>2. job'.kind # "stop" => job.kind # "stop"
      BY <1>11 DEF StopBroadcast, NoJob, Job, OutputInv, JobTypes, Steps
    <2>3. QED
      BY <2>1, <2>2 DEF Audible
  <1>12. CASE StopUnpublish
    <2>1. job'.kind = "stop" /\ syncs' = syncs /\ syncs = {}
      BY <1>12 DEF StopUnpublish, Job, Mix
    <2>2. QED
      BY <2>1
  <1>13. CASE StopMixer
    <2>1. track' = 0 /\ syncs' = syncs /\ syncs = {}
      BY <1>13 DEF StopMixer, Mix, OutputInv, Steps
    <2>2. QED
      BY <2>1
  <1>14. CASE StopThrows
    BY <1>14, StopFinds
  <1>15. CASE StopFails
    BY <1>15 DEF StopFails, Note, Unless, Disturbed
  <1>16. CASE MixerClosed
    <2>1. track = 0 /\ syncs = {}
      <3>1. CASE closing = "stop"
        BY <3>1 DEF OutputInv, Steps, Mix
      <3>2. CASE closing = "leave"
        BY <3>2 DEF OutputInv, Steps, Mix, Session, NoJob
      <3>3. QED
        BY <1>16, <3>1, <3>2 DEF MixerClosed, OutputInv, MixTypes
    <2>2. track' = 0 /\ syncs' = {}
      BY <1>16, <2>1 DEF MixerClosed, mix
    <2>3. QED
      BY <2>2
  <1>17. ASSUME NEW t \in {"livekit", "antmedia"}, ConnectStudio(t) PROVE Heard'
    <2>1. job = NoJob /\ track = 0 /\ syncs = {}
      BY <1>17 DEF ConnectStudio, OutputInv, Steps, Session, Mix, NoJob
    <2>2. track' = 0 /\ syncs' = {}
      BY <1>17, <2>1 DEF ConnectStudio, mix
    <2>3. QED
      BY <2>2
  <1>18. CASE LeaveStudio
    <2>1. track' = 0 /\ syncs' = {}
      BY <1>18 DEF LeaveStudio, Unless, Disturbed, Note, If, Quiet
    <2>2. QED
      BY <2>1
  <1>19. CASE Unmount
    BY <1>19 DEF Unmount
  <1>20. QED
    BY <1>1, <1>2, <1>3, <1>4, <1>5, <1>6, <1>7, <1>8, <1>9, <1>10, <1>11, <1>12,
       <1>13, <1>14, <1>15, <1>16, <1>17, <1>18, <1>19 DEF Next

\* Nothing runs on a page that was closed between two handlers, and a late change of
\* its cameras finds the track of the session in place.
LEMMA GoneStep ==
    ASSUME OutputInv, SessionInv, MixInv, Gone, Next, ~mounted',
           Unless(Disturbed \cup {"mixInStop", "unmountInFlight"})'
    PROVE  Ended'
  <1>1. Unless(Disturbed \cup {"mixInStop", "unmountInFlight"})
    BY Onward DEF Unless
  <1>2. Unless(Disturbed) /\ Unless(Disturbed \cup {"mixInStop"})
    BY <1>1 DEF Unless
  <1>3. CASE ~mounted
    <2>1. /\ job.kind = "none" /\ syncs = {} /\ closing = "none" /\ adaptors = {}
          /\ job.step = "none" /\ Ended
      BY <1>1, <1>3 DEF Gone, Ended, Quiet, NoJob
    <2>2. PICK enabled \in BOOLEAN : UpdateAudioMix(enabled)
      <3> USE <1>3, <2>1
      <3>1. /\ \A t \in {"livekit", "antmedia"} : ~ConnectStudio(t)
            /\ ~ToggleProgramAudio /\ ~StartBroadcast /\ ~StopBroadcast
            /\ ~LeaveStudio /\ ~Unmount
        BY DEF ConnectStudio, ToggleProgramAudio, StartBroadcast, StopBroadcast,
           LeaveStudio, Unmount
      <3>2. ~StartAntMediaOutput /\ ~AntMediaImported /\ ~StartDone /\ ~StartFails
        BY DEF StartAntMediaOutput, AntMediaImported, StartDone, StartFails
      <3>3. ~StopUnpublish /\ ~StopMixer /\ ~StopThrows /\ ~StopFails /\ ~MixerClosed
        BY DEF StopUnpublish, StopMixer, StopThrows, StopFails, MixerClosed
      <3>4. QED
        BY <3>1, <3>2, <3>3 DEF Next
    <2>3. UNCHANGED <<page, job, ant>>
      BY <2>2 DEF UpdateAudioMix
    <2>4. UNCHANGED <<closing, track>> /\ syncs' = {} /\ published' = {}
      <3>1. CASE status = "live"
        <4>1. Sync("mix")
          BY <2>2, <3>1 DEF UpdateAudioMix
        <4>2. ~(target = "livekit" /\ track = 0 /\ room # 0)
          BY <2>1, <3>1 DEF Ended
        <4>3. UNCHANGED <<closing, track>> /\ UNCHANGED syncs /\ SetMuted(~Audible')
          BY <4>1, <4>2, SyncContext, SyncMix
        <4>4. QED
          BY <2>1, <4>3 DEF Ended, SetMuted
      <3>2. CASE status # "live"
        BY <2>1, <2>2, <3>2 DEF UpdateAudioMix, Ended, mixer, mix
      <3>3. QED
        BY <3>1, <3>2
    <2>5. QED
      BY <2>1, <2>3, <2>4 DEF Ended, Quiet, page, ant
  <1>4. CASE mounted
    <2>1. Unmount
      <3>1. ASSUME ~Unmount PROVE mounted'
        <4> USE <1>4
        <4>1. CASE \E enabled \in BOOLEAN : UpdateAudioMix(enabled)
          BY <4>1 DEF UpdateAudioMix, page
        <4>2. CASE \E s \in syncs : Published(s) \/ PublishFails(s)
          BY <4>2 DEF Published, PublishFails, page
        <4>3. CASE \E a \in adaptors : PublishStarted(a)
          BY <4>3 DEF PublishStarted
        <4>4. CASE \E t \in {"livekit", "antmedia"} : ConnectStudio(t)
          BY <4>4 DEF ConnectStudio
        <4>5. CASE \/ ToggleProgramAudio \/ StartAntMediaOutput \/ AntMediaImported
                   \/ StartBroadcast \/ StartDone \/ StartFails
          BY <4>5 DEF ToggleProgramAudio, StartAntMediaOutput, AntMediaImported,
             StartBroadcast, StartDone, StartFails, page
        <4>6. CASE \/ StopBroadcast \/ StopUnpublish \/ StopMixer \/ StopThrows
                   \/ StopFails \/ MixerClosed \/ LeaveStudio
          BY <4>6 DEF StopBroadcast, StopUnpublish, StopMixer, StopThrows,
             StopFails, MixerClosed, LeaveStudio, page
        <4>7. QED
          BY <3>1, <4>1, <4>2, <4>3, <4>4, <4>5, <4>6 DEF Next
      <3>2. QED
        BY <3>1
    <2>2. Quiet
      BY <2>1 DEF Unmount, Unless, Disturbed, Note, If
    <2>3. Quiet'
      BY <2>1, <2>2 DEF Unmount, Quiet
    <2>4. /\ \A p \in published : p.room = room
          /\ status = "live" /\ target = "livekit" => track # 0
      BY <1>2, <1>4, <2>2 DEF MixInv, Mix, Quiet
    <2>5. published' = {}
      BY <2>1, <2>4 DEF Unmount
    <2>6. adaptors' = {}
      BY <2>1, StopAnt DEF Unmount, OutputInv, Note
    <2>7. QED
      BY <2>1, <2>3, <2>4, <2>5, <2>6 DEF Ended, Unmount
  <1>5. QED
    BY <1>3, <1>4

\* A page that was just opened has no session, no adaptor and no mix.
LEMMA OutputInit == Init => OutputInv /\ AirInv
  <1> SUFFICES ASSUME Init PROVE OutputInv /\ AirInv
    OBVIOUS
  <1> USE OutputAssumption DEF Init
  <1>1. PageTypes
    <2>1. mounted \in BOOLEAN /\ programAudio \in BOOLEAN /\ selected \in BOOLEAN
      OBVIOUS
    <2>2. QED
      BY <2>1 DEF PageTypes, Join
  <1>2. JobTypes /\ AntTypes /\ Held
    BY DEF JobTypes, NoJob, AntTypes, Held, Unless, Ref
  <1>3. MixTypes
    BY DEF MixTypes, Id, Ref
  <1>4. HistoryTypes
    BY DEF HistoryTypes, Made, Join
  <1>5. Created
    BY DEF Created, Made, NoJob
  <1>6. Steps
    BY DEF Steps, NoJob
  <1>7. SessionInv
    BY DEF SessionInv, Session, NoJob
  <1>8. MixInv /\ HeardInv
    BY DEF MixInv, Mix, HeardInv, Heard, NoJob
  <1>9. Gone
    BY DEF Gone, Ended
  <1>10. QED
    BY <1>1, <1>2, <1>3, <1>4, <1>5, <1>6, <1>7, <1>8, <1>9 DEF OutputInv, AirInv

\* The invariants are about the variables alone: a stutter keeps them.
LEMMA OutputStays ==
    ASSUME UNCHANGED vars
    PROVE  /\ OutputInv => OutputInv'
           /\ AirInv => AirInv'
  <1> USE DEF vars, page, intent, mixer, mix, ant, history
  <1>1. OutputInv => OutputInv'
    BY DEF OutputInv, PageTypes, JobTypes, MixTypes, AntTypes, HistoryTypes,
       Created, Steps, Held, Unless
  <1>2. (SessionInv => SessionInv') /\ (MixInv => MixInv')
    BY DEF SessionInv, Session, MixInv, Mix, Unless
  <1>3. (HeardInv => HeardInv') /\ (Gone => Gone')
    BY DEF HeardInv, Heard, Audible, Gone, Ended, Quiet, Unless
  <1>4. QED
    BY <1>1, <1>2, <1>3 DEF AirInv

\* The invariant of what is on air survives every step, an overlap or the unmount.
LEMMA AirNext == OutputInv /\ AirInv /\ [Next]_vars => AirInv'
  <1> SUFFICES ASSUME OutputInv, AirInv, [Next]_vars PROVE AirInv'
    OBVIOUS
  <1>1. CASE UNCHANGED vars
    BY <1>1, OutputStays
  <1>2. CASE Next
    <2>1. overlaps \subseteq overlaps' /\ (mounted' => mounted)
      BY <1>2, Onward
    <2>2. ASSUME mounted', Unless(Disturbed)' PROVE mounted /\ Session /\ Session'
      <3>1. mounted /\ Session
        BY <2>1, <2>2 DEF AirInv, SessionInv, Unless
      <3>2. QED
        BY <1>2, <2>2, <3>1, SessionStep
    <2>3. ASSUME mounted', Unless(Disturbed \cup {"mixInStop"})'
          PROVE  mounted /\ Session /\ Mix /\ Mix'
      <3>1. mounted /\ Mix /\ Unless(Disturbed)'
        BY <2>1, <2>3 DEF AirInv, MixInv, Unless
      <3>2. Session
        BY <2>2, <2>3, <3>1
      <3>3. QED
        BY <1>2, <2>3, <3>1, <3>2, MixStep
    <2>4. ASSUME mounted', Unless(Disturbed \cup {"mixInStop", "mixInStart"})'
          PROVE  Heard'
      <3>1. mounted /\ Heard /\ Unless(Disturbed \cup {"mixInStop"})'
        BY <2>1, <2>4 DEF AirInv, HeardInv, Unless
      <3>2. Session /\ Mix
        BY <2>3, <2>4, <3>1
      <3>3. QED
        BY <1>2, <2>4, <3>1, <3>2, HeardStep
    <2>5. Gone'
      BY <1>2, GoneStep DEF AirInv, Gone
    <2>6. QED
      BY <2>2, <2>3, <2>4, <2>5 DEF AirInv, SessionInv, MixInv, HeardInv
  <1>3. QED
    BY <1>1, <1>2

\* The inductive invariant of what is open holds in every state.
THEOREM OutputAlways == Spec => []OutputInv
  <1>1. OutputInv /\ [Next]_vars => OutputInv'
    BY OutputNext, OutputStays
  <1>2. QED
    BY <1>1, OutputInit, PTL DEF Spec

\* So does what is on the air while nothing has disturbed the page.
THEOREM AirAlways == Spec => []AirInv
  BY OutputInit, OutputAlways, AirNext, PTL DEF Spec

\* Every variable keeps its type, however many joins and events there are.
THEOREM TypeCorrect == Spec => []TypeOK
  <1>1. OutputInv => TypeOK
    BY DEF OutputInv, PageTypes, JobTypes, MixTypes, AntTypes, HistoryTypes, TypeOK
  <1>2. QED
    BY <1>1, OutputAlways, PTL

\* A page that is open can reach every publisher that is, whatever overlapped or
\* failed, and every player until publishing is reported started again.
THEOREM AdaptorsReached == Spec => []AdaptorsHeld
  <1>1. OutputInv => AdaptorsHeld
    BY DEF OutputInv, Held, AdaptorsHeld
  <1>2. QED
    BY <1>1, OutputAlways, PTL

\* Live and at rest the program is heard as the operator set it, on either output.
THEOREM ProgramHeard == Spec => []ProgramIsHeard
  <1>1. OutputInv /\ AirInv => MixIsHeard
    <2> SUFFICES ASSUME OutputInv, AirInv, mounted, Quiet, status = "live",
                        target = "livekit",
                        Unless({"mixInStart", "mixInStop", "startInClose",
                                "leaveInFlight", "failed"})
                 PROVE  /\ context \notin closed
                        /\ published = {[id |-> track, context |-> context,
                                         room |-> room,
                                         muted |-> ~Audible]}
                        /\ Audible => nodes = context
      BY DEF MixIsHeard
    <2>1. Session /\ Mix /\ Heard
      BY DEF AirInv, SessionInv, MixInv, HeardInv, Unless, Disturbed
    <2>2. track # 0 /\ context \notin closed
      BY <2>1 DEF Session, Mix, Quiet
    <2>3. QED
      BY <2>1, <2>2 DEF Heard, Quiet, NoJob
  <1>2. OutputInv /\ AirInv => AntMediaIsHeard
    <2> SUFFICES ASSUME OutputInv, AirInv, mounted, Quiet, status = "live",
                        target = "antmedia",
                        Unless({"startInClose", "leaveInFlight", "failed"})
                 PROVE  /\ adaptors = {[id |-> publisher, context |-> context,
                                        started |-> TRUE]}
                        /\ context \notin closed /\ player \in players
                        /\ Unless({"startedAgain"}) => players = {player}
      BY DEF AntMediaIsHeard
    <2>1. Session
      BY DEF AirInv, SessionInv, Unless, Disturbed
    <2>2. /\ context \notin closed
          /\ adaptors = {[id |-> publisher, context |-> context, started |-> TRUE]}
      BY <2>1 DEF Session, Quiet
    <2>3. player \in players /\ (Unless({"startedAgain"}) => players = {player})
      BY <2>2 DEF OutputInv, Held
    <2>4. QED
      BY <2>2, <2>3
  <1>3. QED
    BY <1>1, <1>2, OutputAlways, AirAlways, PTL DEF ProgramIsHeard

\* Off air and at rest nothing is published and no publisher is open, nor a player
\* that was not let go of.
THEOREM OffAirIsSilent == Spec => []SilentOffAir
  <1>1. OutputInv /\ AirInv => SilentOffAir
    <2> SUFFICES ASSUME OutputInv, AirInv, Quiet, status # "live" \/ ~mounted,
                        Unless({"mixInStop", "startInClose", "leaveInFlight",
                                "unmountInFlight", "failed"})
                 PROVE  /\ published = {} /\ adaptors = {}
                        /\ Unless({"startedAgain"}) => players = {}
      BY DEF SilentOffAir
    <2>1. published = {} /\ adaptors = {}
      <3>1. CASE ~mounted
        BY <3>1 DEF AirInv, Gone, Ended, Unless, Disturbed
      <3>2. CASE mounted
        <4>1. Session /\ Mix
          BY <3>2 DEF AirInv, SessionInv, MixInv, Unless, Disturbed
        <4>2. QED
          BY <3>2, <4>1 DEF Session, Mix, Quiet, NoJob
      <3>3. QED
        BY <3>1, <3>2
    <2>2. QED
      BY <2>1 DEF OutputInv, Held
  <1>2. QED
    BY <1>1, OutputAlways, AirAlways, PTL
=============================================================================
