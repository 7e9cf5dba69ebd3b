-------------------------- MODULE SceneCollection --------------------------
(***************************************************************************)
(* The Studio's scene collection: the scenes the producer prepares         *)
(* (studioScenes), the one being edited (scene and sceneCameraSourceIDs),  *)
(* the layer editor of components/studio/scene-editor.tsx, and the copy    *)
(* that goes to the program.                                               *)
(*                                                                         *)
(* Handlers run to their first await on the state of the render that made  *)
(* them. An image upload awaits the server and then commits what it read   *)
(* when the file was picked; a Cut awaits the bridge and then shows what it *)
(* read at the press. Layers are kept on one axis: x and width stand for y  *)
(* and height as well, and a visibility flag for the other attributes.     *)
(***************************************************************************)
EXTENDS Naturals, Integers, Sequences, FiniteSets, SequencesExt

CONSTANTS
    Camera,     \* cameras that may be connected
    None,       \* no camera
    Full,       \* the frame's extent; 100 percent in the code
    Least,      \* the least extent of a layer; 5 percent in the code
    NewX,       \* where a new layer is put; 70 in the code
    NewWidth,   \* and its extent; 25 in the code
    MaxPresses  \* bound: what the operator does, cameras, faults and reloads

ASSUME SceneAssumption ==
    /\ None \notin Camera /\ MaxPresses \in Nat
    /\ {Full, Least, NewX, NewWidth} \subseteq Nat
    /\ Least <= NewWidth /\ NewX + NewWidth <= Full

VARIABLES
    joined,     \* isConnected: the panels and the Cut button are shown
    live,       \* the page's status is "live"
    connected,  \* cameras of the page that have a video track
    load,       \* getProgramScene of this page: "pending", "done", "failed"
    stored,     \* localstream-studio-scenes of the browser
    scenes,     \* studioScenes
    selected,   \* selectedSceneKey
    editor,     \* scene and sceneCameraSourceIDs
    dirty,      \* previewSceneDirty
    preview,    \* previewCameraId
    active,     \* activeCameraId
    program,    \* programScene, its layers
    programKey, \* programSceneKey
    upload,     \* the image upload awaited, or NoUpload
    job,        \* the Cut or Start awaited, or NoJob
    made,       \* scenes and layers created so far
    presses,    \* how many of what MaxPresses bounds there have been
    wanted,     \* history: the collection the operator has asked for
    overlaps    \* history: which events overlapped a handler in flight

session == <<joined, live, connected>>
book    == <<stored, scenes, selected, editor, wanted>>
camera  == <<preview, active>>
output  == <<program, programKey>>
vars    == <<session, load, book, dirty, camera, output, upload, job, made,
             presses, overlaps>>

-----------------------------------------------------------------------------
(* A scene's content, and what the editor does to it.                      *)

Id       == 0..(MaxPresses + 1)
Layer    == [id: Id, z: Id, x: 0..Full, width: 0..Full, visible: BOOLEAN]
Content  == [source: Camera \cup {None}, cameras: SUBSET Camera,
             layers: SUBSET Layer]
Scene    == [key: Id, content: Content]
NoUpload == [key |-> 0]
NoJob    == [step |-> "none"]
Overlap  == {"editInUpload", "selectInUpload", "editInCut", "dirtyForgotten",
             "joinedUnloaded", "previewDisconnected"}

Empty == [source |-> None, cameras |-> {}, layers |-> {}]
First == <<[key |-> 1, content |-> Empty]>>

AddCamera(c, id)    == [c EXCEPT !.cameras = @ \cup {id}, !.source = id]
SelectCamera(c, id) == [c EXCEPT !.source = id]
RemoveCamera(c, id) == [c EXCEPT !.cameras = @ \ {id},
                                 !.source = IF @ = id THEN None ELSE @]

\* Mutant of AddImage: a new layer goes above as many as there are.
AddImageCounted(c, id) ==
    [c EXCEPT !.layers = @ \cup {[id |-> id, z |-> Cardinality(@) + 1, x |-> NewX,
                                  width |-> NewWidth, visible |-> TRUE]}]

AddImage(c, id) ==
    LET top == CHOOSE n \in Id : /\ n = 0 \/ \E l \in c.layers : l.z = n
                                 /\ \A l \in c.layers : l.z <= n
    IN  [c EXCEPT !.layers = @ \cup {[id |-> id, z |-> top + 1, x |-> NewX,
                                      width |-> NewWidth, visible |-> TRUE]}]

Update(c, id, patch) ==
    [c EXCEPT !.layers = {IF l.id = id THEN patch[l] ELSE l : l \in @}]
RemoveLayer(c, id) == [c EXCEPT !.layers = {l \in @ : l.id # id}]
Toggle(c, l) == Update(c, l.id, [k \in Layer |-> [k EXCEPT !.visible = ~l.visible]])

\* moveDrag: what the pointer asks for, a number of either sign, is clamped.
Clamp(value, least, most) ==
    LET raised == IF value < least THEN least ELSE value
    IN  IF raised > most THEN most ELSE raised
Move(c, l, value) ==
    Update(c, l.id, [k \in Layer |->
                       [k EXCEPT !.x = Clamp(value, 0, Full - l.width)]])
Resize(c, l, value) ==
    Update(c, l.id, [k \in Layer |->
                       [k EXCEPT !.width = Clamp(value, Least, Full - l.x)]])

\* reorderLayers: from the top down, dragged is taken out and put where target
\* was, and the layers are numbered anew.
Reorder(c, dragged, target) ==
    LET place(id) == Cardinality({l \in c.layers :
                       \E m \in c.layers : m.id = id /\ l.z > m.z})
        from == place(dragged)
        to   == place(target)
        after(l) == LET p == place(l.id) IN
                    CASE p = from -> to
                      [] from < p /\ p <= to -> p - 1
                      [] to <= p /\ p < from -> p + 1
                      [] OTHER -> p
    IN  [c EXCEPT !.layers =
           {[l EXCEPT !.z = Cardinality(c.layers) - after(l)] : l \in @}]

-----------------------------------------------------------------------------
Shown(id) == IF id \in connected THEN id ELSE None

\* A collection's keys are distinct (TypeOK): find and filter have one place to look at.
KeysOf(items)       == {items[i].key : i \in DOMAIN items}
Keys                == KeysOf(scenes)
PlaceOf(items, key) == CHOOSE i \in DOMAIN items : items[i].key = key
ItemOf(items, key)  == items[PlaceOf(items, key)]
Without(items, key) == IF key \in KeysOf(items)
                       THEN RemoveAt(items, PlaceOf(items, key)) ELSE items
Put(items, key, content) ==
    [i \in DOMAIN items |-> IF items[i].key = key
                            THEN [items[i] EXCEPT !.content = content]
                            ELSE items[i]]

\* commitSelectedStudioScene, of the render whose selected scene is key.
Commit(key, content) == editor' = content /\ scenes' = Put(scenes, key, content)
\* The operator's change, to the scene it was meant for.
Ask(key, Change(_)) ==
    wanted' = [i \in DOMAIN wanted |-> IF wanted[i].key = key
                                       THEN [wanted[i] EXCEPT !.content = Change(@)]
                                       ELSE wanted[i]]

\* Mutant of Persist: the collection is kept only as it was loaded.
PersistNothing == UNCHANGED stored

\* The effect on studioScenes: the collection is kept once it has been loaded.
Persist == stored' = IF load = "done" THEN scenes' ELSE stored

If(name, condition) == IF condition THEN {name} ELSE {}
Note(names) == overlaps' = overlaps \cup names
Press == presses < MaxPresses /\ presses' = presses + 1

Init ==
    /\ joined = FALSE /\ live = FALSE /\ connected = {}
    /\ load = "pending" /\ stored = <<>>
    /\ scenes = First /\ selected = 1 /\ editor = Empty /\ dirty = FALSE
    /\ preview = None /\ active = None
    /\ program = {} /\ programKey = 0
    /\ upload = NoUpload /\ job = NoJob
    /\ made = [scene |-> 1, layer |-> 0]
    /\ presses = 0 /\ wanted = <<>> /\ overlaps = {}

-----------------------------------------------------------------------------
(* Loading and reloading the page.                                         *)

\* Mutant of LoadScenes: base stays in the editor when a collection is stored.
LoadScenesBase(base) ==
    /\ load = "pending" /\ load' = "done"
    /\ scenes' = IF stored = <<>> THEN <<[key |-> 1, content |-> base]>> ELSE stored
    /\ wanted' = IF wanted = <<>> THEN scenes' ELSE wanted
    /\ selected' = scenes'[1].key /\ programKey' = scenes'[1].key
    /\ editor' = base /\ program' = base.layers
    /\ dirty' = FALSE /\ stored' = scenes'
    /\ UNCHANGED <<session, camera, upload, job, made, presses, overlaps>>

\* initializeStudioScenes: the stored collection, or one scene made of base, the
\* server's scene or the one an earlier version of the page kept.
LoadScenes(base) ==
    /\ load = "pending" /\ load' = "done"
    /\ scenes' = IF stored = <<>> THEN <<[key |-> 1, content |-> base]>> ELSE stored
    /\ wanted' = IF wanted = <<>> THEN scenes' ELSE wanted
    /\ selected' = scenes'[1].key /\ programKey' = scenes'[1].key
    /\ editor' = scenes'[1].content /\ program' = editor'.layers
    /\ dirty' = FALSE /\ stored' = scenes'
    /\ UNCHANGED <<session, camera, upload, job, made, presses, overlaps>>

LoadFails ==
    /\ load = "pending" /\ load' = "failed" /\ Press
    /\ editor' = [editor EXCEPT !.source = None, !.layers = {}]
    /\ program' = {}
    /\ UNCHANGED <<session, stored, scenes, selected, wanted, dirty, camera,
                   programKey, upload, job, made, overlaps>>

Reload ==
    /\ Press
    /\ joined' = FALSE /\ live' = FALSE /\ connected' = {}
    /\ load' = "pending"
    /\ scenes' = First /\ selected' = 1 /\ editor' = Empty /\ dirty' = FALSE
    /\ preview' = None /\ active' = None /\ program' = {} /\ programKey' = 0
    /\ upload' = NoUpload /\ job' = NoJob
    /\ UNCHANGED <<stored, wanted, made, overlaps>>

-----------------------------------------------------------------------------
(* The cameras of the page.                                                *)

\* updateCameras: the selected scene's camera is previewed when it is there, and
\* becomes the active one when the active one is gone.
UpdateCameras(present) ==
    /\ connected' = present
    /\ preview' = IF editor.source \in present THEN editor.source ELSE None
    /\ active' = IF active \in present THEN active ELSE preview'

EnterStudio(present) ==
    /\ ~joined /\ joined' = TRUE /\ Press
    /\ UpdateCameras(present)
    /\ Note(If("joinedUnloaded", load # "done"))
    /\ UNCHANGED <<live, load, book, dirty, output, upload, job, made>>

CamerasChange(present) ==
    /\ joined /\ Press
    /\ UpdateCameras(present)
    /\ UNCHANGED <<joined, live, load, book, dirty, output, upload, job, made,
                   overlaps>>

\* The X of a camera's audio row: the page lets go of the camera before the camera is
\* gone, and the scene keeps it.
DisconnectSource(id) ==
    /\ joined /\ Press
    /\ active' = IF active = id THEN None ELSE active
    /\ preview' = IF preview = id THEN None ELSE preview
    /\ Note(If("previewDisconnected", preview = id))
    /\ UNCHANGED <<session, load, book, dirty, output, upload, job, made>>

LeaveStudio ==
    /\ joined /\ job = NoJob
    /\ joined' = FALSE /\ live' = FALSE /\ connected' = {}
    /\ preview' = None /\ active' = None
    /\ UNCHANGED <<load, book, dirty, output, upload, job, made, presses, overlaps>>

-----------------------------------------------------------------------------
(* Editing the selected scene.                                             *)

\* What every edit does.
Edit(Change(_)) ==
    /\ joined /\ Press
    /\ Commit(selected, Change(editor)) /\ Ask(selected, Change)
    /\ dirty' = TRUE
    /\ Persist
    /\ Note(If("editInUpload", upload # NoUpload) \cup If("editInCut", job # NoJob))
    /\ UNCHANGED <<session, load, selected, output, upload, job, made>>

EditLayers(Change(_)) == Edit(Change) /\ UNCHANGED camera
EditCamera(Change(_), id) == Edit(Change) /\ preview' = id /\ UNCHANGED active

AddCameraSource(id) ==
    /\ id \in connected \ editor.cameras
    /\ EditCamera(LAMBDA c : AddCamera(c, id), id)
SelectCameraSource(id) ==
    /\ id \in connected \cap editor.cameras
    /\ EditCamera(LAMBDA c : SelectCamera(c, id), id)

\* Mutant of RemoveCameraSource: the Preview keeps the camera.
RemoveCameraSourceShown(id) ==
    /\ id \in editor.cameras
    /\ EditCamera(LAMBDA c : RemoveCamera(c, id), preview)
RemoveCameraSource(id) ==
    /\ id \in editor.cameras
    /\ EditCamera(LAMBDA c : RemoveCamera(c, id),
                  IF editor.source = id THEN None ELSE preview)

UpdateSceneLayers ==
    \E l \in editor.layers :
        \/ EditLayers(LAMBDA c : Toggle(c, l))
        \/ EditLayers(LAMBDA c : RemoveLayer(c, l.id))
        \/ /\ l.visible
           /\ \E value \in {-1, Full} :
                \/ EditLayers(LAMBDA c : Move(c, l, value))
                \/ EditLayers(LAMBDA c : Resize(c, l, value))
        \/ \E target \in editor.layers \ {l} :
                EditLayers(LAMBDA c : Reorder(c, l.id, target.id))

\* addImage up to its await: the layers, the scene and the key it will use.
PickImage ==
    /\ joined /\ upload = NoUpload /\ Press
    /\ upload' = [key |-> selected, content |-> editor]
    /\ UNCHANGED <<session, load, book, dirty, camera, output, job, made, overlaps>>

\* Mutant of AddImageLayer: the scene is not marked as changed.
AddImageLayerUnmarked ==
    /\ upload # NoUpload /\ upload' = NoUpload
    /\ LET id == made.layer + 1 IN
       /\ Commit(upload.key, AddImage(upload.content, id))
       /\ Ask(upload.key, LAMBDA c : AddImage(c, id))
       /\ made' = [made EXCEPT !.layer = id]
    /\ Persist
    /\ Note(If("editInCut", job # NoJob))
    /\ UNCHANGED <<session, load, selected, dirty, camera, output, job, presses>>

AddImageLayer ==
    /\ upload # NoUpload /\ upload' = NoUpload
    /\ LET id == made.layer + 1 IN
       /\ Commit(upload.key, AddImage(upload.content, id))
       /\ Ask(upload.key, LAMBDA c : AddImage(c, id))
       /\ made' = [made EXCEPT !.layer = id]
    /\ dirty' = TRUE
    /\ Persist
    /\ Note(If("editInCut", job # NoJob))
    /\ UNCHANGED <<session, load, selected, camera, output, job, presses>>

UploadFails ==
    /\ upload # NoUpload /\ upload' = NoUpload
    /\ UNCHANGED <<session, load, book, dirty, camera, output, job, made, presses,
                   overlaps>>

-----------------------------------------------------------------------------
(* The collection.                                                         *)

\* The scene shown in the editor from now on.
Open(item) ==
    /\ selected' = item.key /\ editor' = item.content
    /\ preview' = Shown(item.content.source) /\ UNCHANGED active

SelectStudioScene(key) ==
    /\ joined /\ key \in Keys /\ Press
    /\ Open(ItemOf(scenes, key))
    /\ dirty' = FALSE
    /\ Note(If("selectInUpload", upload # NoUpload) \cup If("dirtyForgotten", dirty))
    /\ UNCHANGED <<session, load, stored, scenes, wanted, output, upload, job, made>>

\* addStudioScene (with an empty content) and duplicateStudioScene.
AppendScene(content, asked) ==
    /\ joined /\ Press
    /\ LET item == [key |-> made.scene + 1, content |-> content] IN
       /\ scenes' = Append(scenes, item)
       /\ wanted' = Append(wanted, [item EXCEPT !.content = asked])
       /\ Open(item)
    /\ made' = [made EXCEPT !.scene = @ + 1]
    /\ dirty' = TRUE
    /\ Persist
    /\ Note(If("selectInUpload", upload # NoUpload))
    /\ UNCHANGED <<session, load, output, upload, job>>

AddStudioScene == AppendScene(Empty, Empty)
DuplicateStudioScene(key) ==
    /\ key \in Keys
    /\ AppendScene(ItemOf(scenes, key).content,
                   IF key \in KeysOf(wanted) THEN ItemOf(wanted, key).content
                   ELSE Empty)

\* Mutant of DeleteStudioScene: the deleted scene stays open.
DeleteStudioSceneOpen(key) ==
    /\ joined /\ key \in Keys /\ Len(scenes) > 1 /\ Press
    /\ scenes' = Without(scenes, key)
    /\ wanted' = Without(wanted, key)
    /\ Persist
    /\ Note(If("selectInUpload", upload # NoUpload /\ selected = key))
    /\ UNCHANGED <<session, load, selected, editor, camera, dirty, output, upload,
                   job, made>>

DeleteStudioScene(key) ==
    /\ joined /\ key \in Keys /\ Len(scenes) > 1 /\ Press
    /\ scenes' = Without(scenes, key)
    /\ wanted' = Without(wanted, key)
    /\ IF selected = key THEN Open(scenes'[1])
       ELSE UNCHANGED <<selected, editor, camera>>
    /\ Persist
    /\ Note(If("selectInUpload", upload # NoUpload /\ selected = key))
    /\ UNCHANGED <<session, load, dirty, output, upload, job, made>>

-----------------------------------------------------------------------------
(* To the program.                                                         *)

CutEnabled == joined /\ preview # None
              /\ (preview # active \/ dirty \/ selected # programKey)

\* performCut, and startBroadcast: they read the scene and its key when pressed.
PerformCut ==
    /\ CutEnabled /\ job = NoJob /\ Press
    /\ job' = [step |-> "switching", kind |-> "cut", key |-> selected,
               layers |-> editor.layers,
               camera |-> IF preview # active THEN preview ELSE None]
    /\ UNCHANGED <<session, load, book, dirty, camera, output, upload, made, overlaps>>

StartBroadcast ==
    /\ joined /\ ~live /\ active # None /\ job = NoJob /\ Press
    /\ job' = [step |-> "switching", kind |-> "start", key |-> selected,
               layers |-> editor.layers, camera |-> None]
    /\ UNCHANGED <<session, load, book, dirty, camera, output, upload, made, overlaps>>

\* The bridge has been asked, or the mixer is ready: the copy becomes the program.
ShowProgram ==
    /\ job.step = "switching"
    /\ active' = IF job.camera = None THEN active ELSE job.camera
    /\ program' = job.layers /\ programKey' = job.key
    /\ job' = [job EXCEPT !.step = "publishing"]
    /\ dirty' = IF job.kind = "start" THEN FALSE ELSE dirty
    /\ UNCHANGED <<session, load, book, preview, upload, made, presses, overlaps>>

\* The snapshot is out.
ProgramShown ==
    /\ job.step = "publishing" /\ job' = NoJob
    /\ dirty' = IF job.kind = "cut" THEN FALSE ELSE dirty
    /\ live' = (live \/ job.kind = "start")
    /\ UNCHANGED <<joined, connected, load, book, camera, output, upload, made,
                   presses, overlaps>>

\* A request is rejected: a Start leaves its scene on the program's monitor.
JobFails ==
    /\ job # NoJob /\ job' = NoJob /\ Press
    /\ UNCHANGED <<session, load, book, dirty, camera, output, upload, made, overlaps>>

-----------------------------------------------------------------------------
Base == {Empty, AddImage(Empty, 0)} \cup {AddCamera(Empty, id) : id \in Camera}

Next ==
    \/ \E base \in Base : LoadScenes(base)
    \/ LoadFails \/ Reload
    \/ \E present \in SUBSET Camera : EnterStudio(present) \/ CamerasChange(present)
    \/ LeaveStudio
    \/ \E id \in Camera : \/ DisconnectSource(id)
                          \/ AddCameraSource(id)
                          \/ SelectCameraSource(id)
                          \/ RemoveCameraSource(id)
    \/ UpdateSceneLayers \/ PickImage \/ AddImageLayer \/ UploadFails
    \/ \E key \in Keys : \/ SelectStudioScene(key)
                         \/ DuplicateStudioScene(key)
                         \/ DeleteStudioScene(key)
    \/ AddStudioScene
    \/ PerformCut \/ StartBroadcast \/ ShowProgram \/ ProgramShown \/ JobFails

Spec == Init /\ [][Next]_vars

-----------------------------------------------------------------------------
TypeOK ==
    /\ joined \in BOOLEAN /\ live \in BOOLEAN /\ connected \subseteq Camera
    /\ load \in {"pending", "done", "failed"}
    /\ \A book_ \in {stored, scenes, wanted} :
         /\ \A i \in DOMAIN book_ : book_[i].key \in Id /\ book_[i].content \in Content
         /\ \A i, j \in DOMAIN book_ : book_[i].key = book_[j].key => i = j
    /\ selected \in Keys /\ programKey \in Id
    /\ editor.source \in editor.cameras \cup {None}
    /\ dirty \in BOOLEAN
    /\ {preview, active} \subseteq Camera \cup {None}
    /\ made \in [scene: Id, layer: Id] /\ presses \in 0..MaxPresses
    /\ overlaps \subseteq Overlap

Unless(names) == overlaps \cap names = {}

\* The editor shows the scene that is marked as selected, unless another scene
\* was opened during an upload or the operator joined before the collection was
\* loaded.
EditorShowsSelected ==
    Unless({"selectInUpload", "joinedUnloaded"})
    => editor = ItemOf(scenes, selected).content

\* Every scene is what the operator made of it, also after a reload, unless an
\* edit or another scene came between a picked image and its layer, or the operator
\* joined before the collection was loaded.
EditsKept ==
    load = "done"
    /\ Unless({"editInUpload", "selectInUpload", "joinedUnloaded"})
    => scenes = wanted

\* In every scene the layers lie inside the frame, none thinner than the least
\* extent, no two at the same height, and none twice, whatever overlaps.
LayersStacked ==
    \A i \in DOMAIN scenes : \A l, m \in scenes[i].content.layers :
        /\ l.x + l.width <= Full /\ l.width >= Least
        /\ l # m => l.id # m.id /\ l.z # m.z

\* The Preview shows the camera of the scene in the editor while it is connected,
\* unless an edit or another scene came during an upload, the operator joined before
\* the collection was loaded, or the previewed camera was told to disconnect.
PreviewIsSource ==
    joined /\ Unless({"selectInUpload", "editInUpload", "joinedUnloaded",
                      "previewDisconnected"})
    => preview = Shown(editor.source)

\* A preview that differs from the program can be cut to it, unless a scene was
\* opened while it had changes or during an upload, something changed during a Cut
\* or a Start, or the operator joined before the collection was loaded.
ChangesCanBeCut ==
    joined /\ preview # None /\ job = NoJob /\ editor.layers # program
    /\ Unless({"dirtyForgotten", "editInCut", "selectInUpload", "joinedUnloaded"})
    => CutEnabled
=============================================================================
