----------------------- MODULE SceneCollectionProofs -----------------------
(***************************************************************************)
(* Proofs about the Studio's scene collection: the types and the keys of   *)
(* its scenes, that their layers stay in the frame and in one order, that   *)
(* the editor shows the scene that is selected, that no edit is lost, that  *)
(* the Preview has the editor's camera, and that a change can be taken to   *)
(* the program, each unless one of the overlaps happened that SceneCollection *)
(* names.                                                                  *)
(*                                                                         *)
(* First the contents of scenes and what the editor does to them, then the *)
(* collections, then the handlers, then the parts of the invariant.        *)
(***************************************************************************)
EXTENDS SceneCollection, FiniteSetTheorems, SequenceTheorems, WellFoundedInduction, TLAPS

\* A content: its layers are distinct in their ids and their heights, and none is from
\* after the first n that were made.
Stacked(c, n) ==
    /\ c \in Content
    /\ \A l \in c.layers : l.id <= n /\ l.z <= n + 1
    /\ \A l, m \in c.layers : l # m => l.id # m.id /\ l.z # m.z

\* One that the editor has had: its layers are in the frame and its camera is one of
\* its cameras.
Framed(c) ==
    /\ c.source \in c.cameras \cup {None}
    /\ \A l \in c.layers : l.x + l.width <= Full /\ l.width >= Least

\* A collection, when count says how many scenes and layers were made.
Book(items, count) ==
    /\ items \in Seq(Scene)
    /\ \A i \in DOMAIN items : /\ items[i].key \in 1..count.scene
                              /\ Stacked(items[i].content, count.layer)
    /\ \A i, j \in DOMAIN items : items[i].key = items[j].key => i = j

\* And one of contents that the editor has had.
FramedBook(items, count) ==
    Book(items, count) /\ \A i \in DOMAIN items : Framed(items[i].content)

\* The types, by parts of the page.
PageTypes ==
    /\ joined \in BOOLEAN /\ live \in BOOLEAN /\ connected \subseteq Camera
    /\ load \in {"pending", "done", "failed"} /\ dirty \in BOOLEAN
    /\ preview \in Camera \cup {None} /\ active \in Camera \cup {None}
    /\ overlaps \subseteq Overlap

BookTypes ==
    /\ FramedBook(scenes, made) /\ FramedBook(stored, made) /\ Book(wanted, made)
    /\ scenes # <<>> /\ selected \in Keys /\ programKey \in 0..made.scene

EditorTypes ==
    /\ Stacked(editor, made.layer) /\ Framed(editor)
    /\ upload # NoUpload =>
        /\ upload \in [key: 1..made.scene, content: Content]
        /\ Stacked(upload.content, made.layer) /\ Framed(upload.content)

JobTypes ==
    job # NoJob =>
        job \in [step: {"switching", "publishing"}, kind: {"cut", "start"},
                 key: 1..made.scene, layers: SUBSET Layer, camera: Camera \cup {None}]

\* What is made is counted among the presses.
Counted ==
    /\ presses \in 0..MaxPresses /\ made \in [scene: Nat, layer: Nat]
    /\ made.scene \in 1..(presses + 1)
    /\ made.layer + (IF upload # NoUpload THEN 1 ELSE 0) <= presses

CollectionInv == PageTypes /\ BookTypes /\ EditorTypes /\ JobTypes /\ Counted

\* A page that is joined after its collection was loaded does nothing before.
Loaded ==
    /\ joined \/ upload # NoUpload \/ job # NoJob => load = "done"
    /\ load # "done" => scenes = First /\ editor = Empty /\ program = {}
LoadedInv == Unless({"joinedUnloaded"}) => Loaded

\* The scene that is selected has the editor's content, and an upload was begun there.
Opened ==
    /\ \A i \in DOMAIN scenes : scenes[i].key = selected => scenes[i].content = editor
    /\ upload # NoUpload => upload.key = selected
OpenedInv == Unless({"selectInUpload", "joinedUnloaded"}) => Opened

\* What is stored is what was asked for, and so is what an upload began with.
Kept ==
    /\ stored = wanted
    /\ load = "done" => scenes = wanted
    /\ upload # NoUpload => upload.content = editor
KeptInv == Unless({"editInUpload", "selectInUpload", "joinedUnloaded"}) => Kept

\* The program has the layers of its scene unless that is marked as changed, and what a
\* handler took to the program is still its scene's.
Clean ==
    /\ ~dirty => \A i \in DOMAIN scenes :
                    scenes[i].key = programKey => scenes[i].content.layers = program
    /\ job # NoJob =>
        /\ \A i \in DOMAIN scenes :
              scenes[i].key = job.key => scenes[i].content.layers = job.layers
        /\ job.step = "publishing" => programKey = job.key /\ program = job.layers
CleanInv ==
    Unless({"dirtyForgotten", "editInCut", "selectInUpload", "joinedUnloaded"}) => Clean

\* The invariant.
IInv == CollectionInv /\ LoadedInv /\ OpenedInv /\ KeptInv /\ PreviewIsSource /\ CleanInv

\* A set of numbers that has a bound and a member has a greatest one.
LEMMA Greatest ==
    ASSUME NEW N \in Nat, NEW S, S \subseteq 0..N, S # {}
    PROVE  \E n \in S : \A m \in S : m <= n
  <1> DEFINE T == {n \in Nat : N - n \in S}
  <1>1. T \subseteq Nat /\ T # {}
    <2>1. PICK s \in S : TRUE
      OBVIOUS
    <2>2. N - s \in Nat /\ N - (N - s) = s
      BY <2>1
    <2>3. N - s \in T
      BY <2>1, <2>2
    <2>4. QED
      BY <2>3
  <1>2. PICK n \in T : \A m \in T : ~(<<m, n>> \in OpToRel(<, Nat))
    BY <1>1, WFMin, NatLessThanWellFounded
  <1>3. ASSUME NEW m \in S PROVE m <= N - n
    <2>1. N - m \in Nat /\ N - (N - m) = m
      OBVIOUS
    <2>2. N - m \in T
      BY <2>1
    <2>3. ~(N - m < n)
      BY <1>2, <2>1, <2>2 DEF OpToRel
    <2>4. n \in Nat /\ m \in Nat
      OBVIOUS
    <2>5. QED
      BY ONLY <2>1, <2>3, <2>4, N \in Nat
  <1>4. QED
    BY <1>2, <1>3

\* What addImage takes as the top is the greatest height, and the layer goes above it.
LEMMA Added ==
    ASSUME NEW n \in Nat, n < MaxPresses, NEW c, Stacked(c, n)
    PROVE  /\ Stacked(AddImage(c, n + 1), n + 1)
           /\ Framed(c) => Framed(AddImage(c, n + 1))
           /\ AddImage(c, n + 1).source = c.source
  <1> USE SceneAssumption
  <1> DEFINE Top(t) == /\ t = 0 \/ \E l \in c.layers : l.z = t
                       /\ \A l \in c.layers : l.z <= t
             top == CHOOSE t \in Id : Top(t)
             S == {l.z : l \in c.layers} \cup {0}
  <1>1. \A l \in c.layers : l \in Layer /\ l.z \in 0..(n + 1) /\ l.z \in Id
    BY DEF Stacked, Content, Layer, Id
  <1>2. PICK t \in S : \A m \in S : m <= t
    <2>1. S \subseteq 0..(n + 1) /\ S # {} /\ n + 1 \in Nat
      BY <1>1
    <2> HIDE DEF S
    <2>2. QED
      BY <2>1, Greatest
  <1>3. t \in Id /\ Top(t)
    BY <1>1, <1>2 DEF Id
  <1>4. top \in Id /\ Top(top)
    BY <1>3
  <1> HIDE DEF top
  <1>5. top \in 0..(n + 1) /\ \A l \in c.layers : l.z < top + 1
    BY <1>1, <1>4 DEF Id
  <1> DEFINE new == [id |-> n + 1, z |-> top + 1, x |-> NewX, width |-> NewWidth,
                     visible |-> TRUE]
  <1>6. AddImage(c, n + 1) = [c EXCEPT !.layers = @ \cup {new}]
    BY DEF AddImage, top
  <1>7. new \in Layer /\ new.id = n + 1 /\ new.z = top + 1
    BY <1>5 DEF Layer, Id
  <1>8. /\ new.z <= n + 2 /\ \A l \in c.layers : l.id # new.id /\ l.z # new.z
    BY <1>1, <1>5, <1>7 DEF Stacked, Layer, Id
  <1>9. new.x + new.width <= Full /\ new.width >= Least
    OBVIOUS
  <1> HIDE DEF new
  <1>10. [c EXCEPT !.layers = @ \cup {new}] \in Content
    BY <1>7 DEF Stacked, Content
  <1>11. /\ AddImage(c, n + 1).layers = c.layers \cup {new}
         /\ AddImage(c, n + 1).source = c.source
         /\ AddImage(c, n + 1).cameras = c.cameras
    BY <1>6 DEF Stacked, Content
  <1>12. Stacked(AddImage(c, n + 1), n + 1)
    <2>1. AddImage(c, n + 1) \in Content
      BY <1>6, <1>10
    <2>2. \A l \in c.layers \cup {new} : l.id <= n + 1 /\ l.z <= n + 2
      BY <1>7, <1>8, <1>1 DEF Stacked, Layer, Id
    <2>3. QED
      BY <1>8, <1>11, <2>1, <2>2 DEF Stacked
  <1>13. QED
    BY <1>9, <1>11, <1>12 DEF Framed

\* Layers that are rewritten one by one, each keeping its id, and not to one height.
LEMMA Rewritten ==
    ASSUME NEW n \in Nat, NEW c, Stacked(c, n), NEW f \in [c.layers -> Layer],
           \A l \in c.layers : f[l].id = l.id /\ f[l].z <= n + 1,
           \A l, m \in c.layers : l # m => f[l].z # f[m].z,
           NEW d, d = [c EXCEPT !.layers = {f[l] : l \in @}]
    PROVE  /\ Stacked(d, n)
           /\ d.source = c.source /\ d.cameras = c.cameras
           /\ d.layers = {f[l] : l \in c.layers}
  <1>1. /\ d.source = c.source /\ d.cameras = c.cameras
        /\ d.layers = {f[l] : l \in c.layers}
    BY DEF Stacked, Content
  <1>2. d \in Content
    BY DEF Stacked, Content
  <1>3. \A l \in d.layers : l.id <= n /\ l.z <= n + 1
    BY <1>1 DEF Stacked
  <1>4. \A l, m \in d.layers : l # m => l.id # m.id /\ l.z # m.z
    BY <1>1 DEF Stacked
  <1>5. QED
    BY <1>1, <1>2, <1>3, <1>4 DEF Stacked

\* A layer that is patched, its id and its height left, is still stacked among the others.
LEMMA Updated ==
    ASSUME NEW n \in Nat, NEW c, Stacked(c, n), NEW id, NEW patch \in [Layer -> Layer],
           \A k \in Layer : patch[k].id = k.id /\ patch[k].z = k.z,
           NEW d, d = Update(c, id, patch)
    PROVE  /\ Stacked(d, n) /\ d.source = c.source
           /\ ( /\ Framed(c)
                /\ \A k \in c.layers : k.id = id => /\ patch[k].x + patch[k].width <= Full
                                                  /\ patch[k].width >= Least )
              => Framed(d)
  <1> DEFINE f == [l \in c.layers |-> IF l.id = id THEN patch[l] ELSE l]
  <1>1. c.layers \subseteq Layer
    BY DEF Stacked, Content
  <1>2. /\ f \in [c.layers -> Layer]
        /\ \A l \in c.layers : f[l].id = l.id /\ f[l].z = l.z
        /\ \A l \in c.layers : f[l] = IF l.id = id THEN patch[l] ELSE l
    BY <1>1
  <1>3. d = [c EXCEPT !.layers = {f[l] : l \in @}]
    <2> HIDE DEF f
    <2>1. {IF l.id = id THEN patch[l] ELSE l : l \in c.layers} = {f[l] : l \in c.layers}
      BY <1>2
    <2>2. d = [c EXCEPT !.layers = {IF l.id = id THEN patch[l] ELSE l : l \in c.layers}]
      BY DEF Update
    <2>3. QED
      BY <2>1, <2>2
  <1> HIDE DEF f
  <1>4. \A l \in c.layers : f[l].id = l.id /\ f[l].z <= n + 1
    BY <1>2 DEF Stacked
  <1>5. \A l, m \in c.layers : l # m => f[l].z # f[m].z
    BY <1>2 DEF Stacked
  <1>6. /\ Stacked(d, n) /\ d.source = c.source /\ d.cameras = c.cameras
        /\ d.layers = {f[l] : l \in c.layers}
    BY <1>2, <1>3, <1>4, <1>5, Rewritten
  <1>7. QED
    BY <1>2, <1>6 DEF Framed

\* Toggling, moving and resizing a layer leave it its place, and inside the frame.
LEMMA Patched ==
    ASSUME NEW n \in Nat, NEW c, Stacked(c, n), NEW l \in Layer, NEW value \in Int,
           NEW d, d \in {Toggle(c, l), Move(c, l, value), Resize(c, l, value)}
    PROVE  /\ Stacked(d, n)
           /\ d.source = c.source
           /\ l \in c.layers /\ Framed(c) => Framed(d)
  <1> USE SceneAssumption
  <1> DEFINE x == Clamp(value, 0, Full - l.width)
             width == Clamp(value, Least, Full - l.x)
  <1>1. /\ x \in 0..Full /\ width \in 0..Full
        /\ x + l.width <= Full
        /\ l.x + l.width <= Full /\ l.width >= Least
            => l.x + width <= Full /\ width >= Least
    BY DEF Clamp, Layer
  <1>2. ASSUME l \in c.layers, Framed(c)
        PROVE  /\ l.x + l.width <= Full /\ l.width >= Least
               /\ \A k \in c.layers : k.id = l.id => k = l
    BY <1>2 DEF Stacked, Framed
  <1>3. c.layers \subseteq Layer
    BY DEF Stacked, Content
  <1>4. CASE d = Toggle(c, l)
    <2> DEFINE patch == [k \in Layer |-> [k EXCEPT !.visible = ~l.visible]]
    <2>1. \A k \in Layer : /\ patch[k] \in Layer /\ patch[k].id = k.id /\ patch[k].z = k.z
                           /\ patch[k].x = k.x /\ patch[k].width = k.width
      BY DEF Layer
    <2>2. patch \in [Layer -> Layer]
      BY <2>1
    <2>3. d = Update(c, l.id, patch)
      BY <1>4 DEF Toggle
    <2> HIDE DEF patch
    <2>4. QED
      BY <1>2, <1>3, <2>1, <2>2, <2>3, Updated
  <1>5. CASE d = Move(c, l, value)
    <2> DEFINE patch == [k \in Layer |-> [k EXCEPT !.x = x]]
    <2> HIDE DEF x
    <2>1. \A k \in Layer : /\ patch[k] \in Layer /\ patch[k].id = k.id /\ patch[k].z = k.z
                           /\ patch[k].x = x /\ patch[k].width = k.width
      BY <1>1 DEF Layer
    <2>2. patch \in [Layer -> Layer]
      BY <2>1
    <2>3. d = Update(c, l.id, patch)
      BY <1>5 DEF Move, x
    <2> HIDE DEF patch
    <2>4. QED
      BY <1>1, <1>2, <1>3, <2>1, <2>2, <2>3, Updated
  <1>6. CASE d = Resize(c, l, value)
    <2> DEFINE patch == [k \in Layer |-> [k EXCEPT !.width = width]]
    <2> HIDE DEF width
    <2>1. \A k \in Layer : /\ patch[k] \in Layer /\ patch[k].id = k.id /\ patch[k].z = k.z
                           /\ patch[k].x = k.x /\ patch[k].width = width
      BY <1>1 DEF Layer
    <2>2. patch \in [Layer -> Layer]
      BY <2>1
    <2>3. d = Update(c, l.id, patch)
      BY <1>6 DEF Resize, width
    <2> HIDE DEF patch
    <2>4. QED
      BY <1>1, <1>2, <1>3, <2>1, <2>2, <2>3, Updated
  <1>7. QED
    BY <1>4, <1>5, <1>6

\* The layers of a scene are no more than there were made, and one from the server.
LEMMA LayersFinite ==
    ASSUME NEW n \in Nat, NEW c, Stacked(c, n)
    PROVE  /\ IsFiniteSet(c.layers)
           /\ Cardinality(c.layers) \in 0..(n + 1)
  <1> DEFINE f == [l \in c.layers |-> l.id]
  <1>1. f \in Injection(c.layers, 0..n)
    BY DEF Injection, IsInjective, Stacked, Content, Layer, Id
  <1>2. IsFiniteSet(0..n) /\ Cardinality(0..n) = n + 1
    BY FS_Interval
  <1>3. IsFiniteSet(c.layers) /\ Cardinality(c.layers) <= n + 1
    BY <1>1, <1>2, FS_Injection
  <1>4. QED
    BY <1>3, FS_CardinalityType

\* Reordering permutes the places, so that no two layers come to one height.
LEMMA Reordered ==
    ASSUME NEW n \in Nat, n <= MaxPresses, NEW c, Stacked(c, n), NEW dragged, NEW target
    PROVE  /\ Stacked(Reorder(c, dragged, target), n)
           /\ Reorder(c, dragged, target).source = c.source
           /\ Framed(c) => Framed(Reorder(c, dragged, target))
  <1> USE SceneAssumption
  <1> DEFINE all == Cardinality(c.layers)
             Above(id) == {l \in c.layers : \E m \in c.layers : m.id = id /\ l.z > m.z}
             place(id) == Cardinality(Above(id))
             from == place(dragged)
             to == place(target)
             after(l) == LET p == place(l.id) IN
                    CASE p = from -> to
                      [] from < p /\ p <= to -> p - 1
                      [] to <= p /\ p < from -> p + 1
                      [] OTHER -> p
             f == [l \in c.layers |-> [l EXCEPT !.z = all - after(l)]]
  <1>1. IsFiniteSet(c.layers) /\ all \in 0..(n + 1)
    BY LayersFinite
  <1>2. \A l \in c.layers : l \in Layer /\ l.z \in Int
    BY DEF Stacked, Content, Layer, Id
  <1>3. ASSUME NEW id
        PROVE place(id) \in 0..all /\ (c.layers # {} => place(id) < all)
    <2>1. Above(id) \in SUBSET c.layers
      OBVIOUS
    <2>2. /\ place(id) \in Nat /\ place(id) <= all
          /\ all = place(id) => c.layers = Above(id)
      BY <1>1, <2>1, FS_Subset, FS_CardinalityType
    <2>3. c.layers # {} => c.layers # Above(id)
      <3>1. CASE \E m \in c.layers : m.id = id
        BY <1>2, <3>1 DEF Stacked
      <3>2. CASE ~ \E m \in c.layers : m.id = id
        BY <3>2
      <3>3. QED
        BY <3>1, <3>2
    <2> HIDE DEF Above, all
    <2>4. QED
      BY <1>1, <2>2, <2>3
  <1>4. ASSUME NEW l \in c.layers, NEW m \in c.layers, l.z > m.z
        PROVE  place(l.id) < place(m.id)
    <2>1. /\ Above(l.id) = {k \in c.layers : k.z > l.z}
          /\ Above(m.id) = {k \in c.layers : k.z > m.z}
      BY DEF Stacked
    <2>2. Above(l.id) \subseteq Above(m.id) /\ l \in Above(m.id) /\ l \notin Above(l.id)
      BY <1>2, <1>4, <2>1
    <2>3. IsFiniteSet(Above(m.id))
      BY <1>1, FS_Subset
    <2> HIDE DEF Above
    <2>4. place(l.id) <= place(m.id) /\ place(l.id) # place(m.id)
      BY <2>2, <2>3, FS_Subset
    <2>5. place(l.id) \in Int /\ place(m.id) \in Int
      BY <2>2, <2>3, FS_Subset, FS_CardinalityType
    <2>6. QED
      BY <2>4, <2>5
  <1> HIDE DEF place, all
  <1>5. \A l, m \in c.layers : l # m => place(l.id) # place(m.id)
    <2>1. SUFFICES ASSUME NEW l \in c.layers, NEW m \in c.layers, l # m
                   PROVE  place(l.id) # place(m.id)
      OBVIOUS
    <2>2. l.z > m.z \/ m.z > l.z
      BY <1>2, <2>1 DEF Stacked
    <2>3. place(l.id) \in Int /\ place(m.id) \in Int
      BY <1>1, <1>3
    <2>4. QED
      BY <1>4, <2>2, <2>3
  <1>6. \A l \in c.layers : place(l.id) \in 0..(all - 1) /\ all > 0
    BY <1>1, <1>3
  <1>7. c.layers # {} => from \in 0..(all - 1) /\ to \in 0..(all - 1)
    BY <1>1, <1>3
  <1> HIDE DEF from, to
  <1>8. ASSUME NEW l \in c.layers PROVE after(l) \in 0..(all - 1)
    BY <1>1, <1>6, <1>7
  <1>9. ASSUME NEW l \in c.layers, NEW m \in c.layers, l # m
        PROVE after(l) # after(m)
    <2>1. /\ place(l.id) # place(m.id) /\ place(l.id) \in 0..(all - 1)
          /\ place(m.id) \in 0..(all - 1)
          /\ from \in 0..(all - 1) /\ to \in 0..(all - 1) /\ all \in Int
      BY <1>1, <1>5, <1>6, <1>7, <1>9
    <2>2. QED
      BY <2>1
  <1>10. Reorder(c, dragged, target) = [c EXCEPT !.layers = {f[l] : l \in @}]
    BY DEF Reorder, all, place, from, to
  <1> HIDE DEF after
  <1>11. f \in [c.layers -> Layer] /\ \A l \in c.layers :
            /\ f[l].id = l.id /\ f[l].z = all - after(l)
            /\ f[l].x = l.x /\ f[l].width = l.width
    BY <1>1, <1>2, <1>8 DEF Layer, Id
  <1> HIDE DEF f
  <1>12. \A l \in c.layers : f[l].id = l.id /\ f[l].z <= n + 1
    BY <1>1, <1>8, <1>11
  <1>13. \A l, m \in c.layers : l # m => f[l].z # f[m].z
    <2>1. SUFFICES ASSUME NEW l \in c.layers, NEW m \in c.layers, l # m
                   PROVE  all - after(l) # all - after(m)
      BY <1>11
    <2>2. after(l) \in Int /\ after(m) \in Int /\ all \in Int /\ after(l) # after(m)
      BY <1>1, <1>8, <1>9, <2>1
    <2>3. QED
      BY <2>2
  <1>14. LET d == Reorder(c, dragged, target) IN
         /\ Stacked(d, n) /\ d.source = c.source /\ d.cameras = c.cameras
         /\ d.layers = {f[l] : l \in c.layers}
    BY <1>10, <1>11, <1>12, <1>13, Rewritten
  <1>15. QED
    BY <1>11, <1>14 DEF Framed

\* A layer that is taken away leaves the others.
LEMMA Removed ==
    ASSUME NEW n \in Nat, NEW c, Stacked(c, n), NEW id
    PROVE  /\ Stacked(RemoveLayer(c, id), n)
           /\ RemoveLayer(c, id).source = c.source
           /\ Framed(c) => Framed(RemoveLayer(c, id))
  <1> DEFINE d == RemoveLayer(c, id)
  <1>1. /\ d \in Content /\ d.source = c.source /\ d.cameras = c.cameras
        /\ d.layers \subseteq c.layers
    BY DEF RemoveLayer, Stacked, Content
  <1> HIDE DEF d
  <1>2. QED
    BY <1>1 DEF d, Stacked, Framed

\* The camera of a content is not among its layers.
LEMMA Directed ==
    ASSUME NEW n \in Nat, NEW c, Stacked(c, n), NEW id \in Camera,
           NEW d, d \in {AddCamera(c, id), SelectCamera(c, id), RemoveCamera(c, id)}
    PROVE  Stacked(d, n)
  <1>1. d \in Content /\ d.layers = c.layers
    <2>1. CASE d = AddCamera(c, id)
      BY <2>1 DEF AddCamera, Stacked, Content
    <2>2. CASE d = SelectCamera(c, id)
      BY <2>2 DEF SelectCamera, Stacked, Content
    <2>3. CASE d = RemoveCamera(c, id)
      BY <2>3 DEF RemoveCamera, Stacked, Content
    <2>4. QED
      BY <2>1, <2>2, <2>3
  <1>2. QED
    BY <1>1 DEF Stacked

\* Which camera it is, and that it is one of the scene's.
LEMMA Directs ==
    ASSUME NEW n \in Nat, NEW c, Stacked(c, n), Framed(c), NEW id \in Camera
    PROVE  /\ Framed(AddCamera(c, id)) /\ AddCamera(c, id).source = id
           /\ SelectCamera(c, id).source = id
           /\ id \in c.cameras => Framed(SelectCamera(c, id))
           /\ Framed(RemoveCamera(c, id))
           /\ RemoveCamera(c, id).source = IF c.source = id THEN None ELSE c.source
  BY DEF AddCamera, SelectCamera, RemoveCamera, Stacked, Content, Framed

\* A key of a collection has one place.
LEMMA Places ==
    ASSUME NEW items, NEW count, Book(items, count), NEW key \in KeysOf(items)
    PROVE  /\ PlaceOf(items, key) \in DOMAIN items
           /\ items[PlaceOf(items, key)].key = key
           /\ \A i \in DOMAIN items : items[i].key = key => i = PlaceOf(items, key)
           /\ ItemOf(items, key) = items[PlaceOf(items, key)]
  BY DEF Book, KeysOf, PlaceOf, ItemOf

\* What is made later leaves a collection one.
LEMMA BookStays ==
    ASSUME NEW count, NEW later, {count, later} \subseteq [scene: Nat, layer: Nat],
           count.scene <= later.scene, count.layer <= later.layer
    PROVE  /\ \A c : Stacked(c, count.layer) => Stacked(c, later.layer)
           /\ \A items : Book(items, count) => Book(items, later)
           /\ \A items : FramedBook(items, count) => FramedBook(items, later)
  <1>1. \A c : Stacked(c, count.layer) => Stacked(c, later.layer)
    BY SceneAssumption DEF Stacked, Content, Layer, Id
  <1>2. \A items : Book(items, count) => Book(items, later)
    BY <1>1 DEF Book
  <1>3. QED
    BY <1>1, <1>2 DEF FramedBook

\* A collection of which the content of key was written anew.
Written(items, new, key, n) ==
    /\ new \in [DOMAIN items -> Scene]
    /\ \A i \in DOMAIN items :
        /\ new[i].key = items[i].key
        /\ IF items[i].key = key THEN Stacked(new[i].content, n) ELSE new[i] = items[i]

\* It stays a collection of the same keys.
LEMMA WrittenBook ==
    ASSUME NEW items, NEW count, Book(items, count), NEW new, NEW key,
           Written(items, new, key, count.layer)
   
    PROVE  Book(new, count) /\ KeysOf(new) = KeysOf(items) /\ (items # <<>> => new # <<>>)
  <1>1. new \in Seq(Scene) /\ DOMAIN new = DOMAIN items
    <2>1. DOMAIN items = 1..Len(items) /\ Len(items) \in Nat
      BY DEF Book
    <2>2. new \in [1..Len(items) -> Scene]
      BY <2>1 DEF Written
    <2>3. QED
      BY <2>1, <2>2
  <1>2. Book(new, count)
    BY <1>1 DEF Book, Written
  <1>3. KeysOf(new) = KeysOf(items)
    BY <1>1 DEF KeysOf, Written
  <1>4. items # <<>> => new # <<>>
    BY <1>1 DEF Book
  <1>5. QED
    BY <1>2, <1>3, <1>4

\* Put writes a content anew.
LEMMA PutWrites ==
    ASSUME NEW items, NEW count, Book(items, count), NEW key, NEW content,
           Stacked(content, count.layer)
    PROVE  /\ Written(items, Put(items, key, content), key, count.layer)
           /\ \A i \in DOMAIN items :
                items[i].key = key => Put(items, key, content)[i].content = content
           /\ FramedBook(items, count) /\ Framed(content)
                => FramedBook(Put(items, key, content), count)
  <1>1. \A i \in DOMAIN items : items[i] \in Scene
    BY DEF Book
  <1>2. Written(items, Put(items, key, content), key, count.layer)
    BY <1>1 DEF Put, Written, Scene, Stacked
  <1>3. \A i \in DOMAIN items :
                items[i].key = key => Put(items, key, content)[i].content = content
    BY <1>1 DEF Put, Scene
  <1>4. QED
    BY <1>2, <1>3, WrittenBook DEF Written, FramedBook

\* A scene of a new key may be appended.
LEMMA AppendBook ==
    ASSUME NEW items, NEW count, count \in [scene: Nat, layer: Nat],
           count.scene + 1 \in Id,
           Book(items, count), NEW content, Stacked(content, count.layer)
    PROVE  LET item  == [key |-> count.scene + 1, content |-> content]
               new   == Append(items, item)
               later == [count EXCEPT !.scene = @ + 1]
           IN  /\ Book(new, later) /\ new # <<>>
               /\ FramedBook(items, count) /\ Framed(content) => FramedBook(new, later)
               /\ KeysOf(new) = KeysOf(items) \cup {item.key}
               /\ DOMAIN new = DOMAIN items \cup {Len(items) + 1}
               /\ new[Len(items) + 1] = item
               /\ \A i \in DOMAIN items : new[i] = items[i]
  <1> DEFINE item  == [key |-> count.scene + 1, content |-> content]
             new   == Append(items, item)
             later == [count EXCEPT !.scene = @ + 1]
  <1>1. item \in Scene /\ later.scene = count.scene + 1 /\ later.layer = count.layer
        /\ item.key = count.scene + 1 /\ item.content = content
    BY DEF Scene, Stacked
  <1>2. items \in Seq(Scene) /\ DOMAIN items = 1..Len(items) /\ Len(items) \in Nat
    BY DEF Book
  <1> HIDE DEF item, later
  <1>3. /\ new \in Seq(Scene) /\ Len(new) = Len(items) + 1 /\ new # <<>>
        /\ new[Len(items) + 1] = item /\ \A i \in DOMAIN items : new[i] = items[i]
    <2>1. new \in Seq(Scene) /\ Len(new) = Len(items) + 1
      BY <1>1, <1>2
    <2>2. new[Len(items) + 1] = item /\ \A i \in DOMAIN items : new[i] = items[i]
      BY <1>1, <1>2
    <2> HIDE DEF new
    <2>3. QED
      BY <1>2, <2>1, <2>2
  <1>4. DOMAIN new = DOMAIN items \cup {Len(items) + 1}
    BY <1>2, <1>3
  <1> HIDE DEF new
  <1>5. Book(new, later)
    BY <1>1, <1>2, <1>3, <1>4 DEF Book
  <1>6. KeysOf(new) = KeysOf(items) \cup {item.key}
    BY <1>3, <1>4 DEF KeysOf
  <1>7. FramedBook(items, count) /\ Framed(content) => FramedBook(new, later)
    BY <1>1, <1>3, <1>4, <1>5 DEF FramedBook
  <1>8. QED
    BY <1>3, <1>4, <1>5, <1>6, <1>7 DEF item, new, later

\* And the scene of a key taken out.
LEMMA WithoutBook ==
    ASSUME NEW items, NEW count, Book(items, count), NEW key
    PROVE  LET new == Without(items, key)
           IN  /\ Book(new, count)
               /\ FramedBook(items, count) => FramedBook(new, count)
               /\ KeysOf(new) = KeysOf(items) \ {key}
               /\ \A j \in DOMAIN new : \E i \in DOMAIN items :
                    new[j] = items[i] /\ items[i].key # key
               /\ Len(items) > 1 => new # <<>>
  <1> DEFINE new == Without(items, key)
             at  == PlaceOf(items, key)
  <1>1. items \in Seq(Scene) /\ DOMAIN items = 1..Len(items) /\ Len(items) \in Nat
    BY DEF Book
  <1>2. CASE key \notin KeysOf(items)
    BY <1>1, <1>2 DEF Without, KeysOf
  <1>3. CASE key \in KeysOf(items)
    <2>1. /\ at \in 1..Len(items) /\ items[at].key = key
          /\ \A i \in 1..Len(items) : items[i].key = key => i = at
      BY <1>1, <1>3, Places
    <2> HIDE DEF at
    <2> DEFINE before == SubSeq(items, 1, at - 1)
               behind == SubSeq(items, at + 1, Len(items))
    <2>2. new = before \o behind
      BY <1>3 DEF Without, RemoveAt, at
    <2> HIDE DEF new
    <2>3. /\ before \in Seq(Scene) /\ Len(before) = at - 1
          /\ \A i \in 1..(at - 1) : before[i] = items[i]
      BY <1>1, <2>1
    <2>4. /\ behind \in Seq(Scene) /\ Len(behind) = Len(items) - at
          /\ \A i \in 1..(Len(items) - at) : behind[i] = items[at + i]
      <3>1. \A i \in (at + 1)..Len(items) : items[i] \in Scene
        BY <1>1, <2>1
      <3>2. at + 1 \in Int /\ Len(items) \in Int
        BY <1>1, <2>1
      <3>3. /\ behind \in Seq(Scene)
            /\ Len(behind) = IF at + 1 <= Len(items) THEN Len(items) - (at + 1) + 1 ELSE 0
            /\ \A i \in 1..(Len(items) - (at + 1) + 1) :
                  behind[i] = items[(at + 1) + i - 1]
        BY <3>1, <3>2, SubSeqProperties
      <3> HIDE DEF behind
      <3>4. Len(behind) = Len(items) - at
        <4>1. at \in Int /\ at <= Len(items) /\ Len(items) \in Int
          BY <1>1, <2>1
        <4>2. Len(behind) = IF at + 1 <= Len(items) THEN Len(items) - (at + 1) + 1 ELSE 0
          BY <3>3
        <4>3. QED
          BY ONLY <4>1, <4>2
      <3>5. ASSUME NEW i \in 1..(Len(items) - at) PROVE behind[i] = items[at + i]
        <4>1. i \in 1..(Len(items) - (at + 1) + 1) /\ (at + 1) + i - 1 = at + i
          BY <1>1, <2>1
        <4>2. behind[i] = items[(at + 1) + i - 1]
          BY <3>3, <4>1
        <4>3. QED
          BY <4>1, <4>2
      <3>6. QED
        BY <3>3, <3>4, <3>5
    <2> HIDE DEF before, behind
    <2>5. /\ new \in Seq(Scene) /\ Len(new) = Len(items) - 1
          /\ DOMAIN new = 1..(Len(items) - 1)
          /\ \A i \in 1..(Len(items) - 1) :
                new[i] = IF i < at THEN items[i] ELSE items[i + 1]
      <3>1. /\ new \in Seq(Scene) /\ Len(new) = Len(before) + Len(behind)
            /\ \A i \in 1..(Len(before) + Len(behind)) :
                  new[i] = IF i <= Len(before) THEN before[i] ELSE behind[i - Len(before)]
        BY <2>2, <2>3, <2>4, ConcatProperties
      <3>2. Len(new) = Len(items) - 1 /\ DOMAIN new = 1..(Len(items) - 1)
        BY <1>1, <2>1, <2>3, <2>4, <3>1
      <3>3. ASSUME NEW i \in 1..(Len(items) - 1)
            PROVE  new[i] = IF i < at THEN items[i] ELSE items[i + 1]
        <4> i \in Int /\ at \in Int
          BY <2>1
        <4>0. /\ i \in 1..(Len(before) + Len(behind))
              /\ (i <= Len(before)) = (i < at) /\ i - Len(before) = i - (at - 1)
          BY <1>1, <2>1, <2>3, <2>4
        <4>1. CASE i < at
          <5>1. i \in 1..(at - 1)
            BY <4>1
          <5>2. new[i] = before[i] /\ before[i] = items[i]
            BY <2>3, <3>1, <4>0, <4>1, <5>1
          <5>3. QED
            BY <4>1, <5>2
        <4>2. CASE i >= at
          <5>1. i - (at - 1) \in 1..(Len(items) - at) /\ at + (i - (at - 1)) = i + 1
            BY <1>1, <2>1, <4>2
          <5>2. behind[i - (at - 1)] = items[i + 1]
            BY <2>4, <5>1
          <5>3. new[i] = behind[i - (at - 1)]
            BY <3>1, <4>0, <4>2
          <5>4. QED
            BY <2>1, <4>2, <5>2, <5>3
        <4>3. QED
          BY <2>1, <4>1, <4>2
      <3>4. QED
        BY <3>1, <3>2, <3>3
    <2>6. \A j \in DOMAIN new : \E i \in DOMAIN items :
              new[j] = items[i] /\ items[i].key # key
      BY <1>1, <2>1, <2>5
    <2>7. \A i, j \in DOMAIN new : new[i].key = new[j].key => i = j
      <3>1. ASSUME NEW i \in DOMAIN new PROVE
                \/ i < at /\ i \in DOMAIN items /\ new[i] = items[i]
                \/ i >= at /\ i + 1 \in DOMAIN items /\ new[i] = items[i + 1]
        BY <1>1, <2>1, <2>5
      <3>2. SUFFICES ASSUME NEW i \in DOMAIN new, NEW j \in DOMAIN new,
                            new[i].key = new[j].key
                     PROVE  i = j
        OBVIOUS
      <3>3. i \in Int /\ j \in Int
        BY <2>5
      <3>4. (i < at /\ i = j) \/ (i >= at /\ i + 1 = j + 1)
            \/ (i < at /\ j >= at /\ i = j + 1) \/ (j < at /\ i >= at /\ i + 1 = j)
        BY <3>1, <3>2 DEF Book
      <3>5. QED
        BY <2>1, <3>3, <3>4
    <2>8. Book(new, count)
      BY <2>5, <2>6, <2>7 DEF Book
    <2>9. KeysOf(new) = KeysOf(items) \ {key}
      <3>1. KeysOf(new) \subseteq KeysOf(items) \ {key}
        BY <2>6 DEF KeysOf
      <3>2. ASSUME NEW i \in DOMAIN items, items[i].key # key
            PROVE items[i].key \in KeysOf(new)
        <4>1. \E j \in DOMAIN new : new[j] = items[i]
          <5>1. CASE i < at
            BY <1>1, <2>1, <2>5, <5>1
          <5>2. CASE i > at
            <6>1. i - 1 \in DOMAIN new /\ new[i - 1] = items[i]
              BY <1>1, <2>1, <2>5, <5>2
            <6>2. QED
              BY <6>1
          <5>3. QED
            BY <1>1, <2>1, <3>2, <5>1, <5>2
        <4>2. QED
          BY <4>1 DEF KeysOf
      <3>3. QED
        BY <3>1, <3>2 DEF KeysOf
    <2>10. Len(items) > 1 => new # <<>>
      BY <1>1, <2>5
    <2>11. QED
      BY <2>6, <2>8, <2>9, <2>10 DEF FramedBook, new
  <1>4. QED
    BY <1>2, <1>3

\* A handler that writes the content of key anew, which it took to be old: in the
\* editor, in the collection, and in what was asked for.
Rewrites(key, old) ==
    /\ scenes' = Put(scenes, key, editor') /\ Persist
    /\ Stacked(editor', made'.layer) /\ Framed(editor')
    /\ Written(wanted, wanted', key, made'.layer)
    /\ \A i \in DOMAIN wanted : wanted[i].key = key /\ wanted[i].content = old
                               => wanted'[i].content = editor'

\* What every edit of the scene in the editor comes to.
EditStep ==
    /\ joined /\ Press /\ Rewrites(selected, editor)
    /\ dirty' = TRUE
    /\ Note(If("editInUpload", upload # NoUpload) \cup If("editInCut", job # NoJob))
    /\ UNCHANGED <<session, load, selected, output, upload, job, made, active>>
    /\ preview' \in Camera \cup {None}
    /\ preview = Shown(editor.source) => preview' = Shown(editor'.source)

\* The contents that are asked for are stacked.
LEMMA WantedStacked ==
    ASSUME CollectionInv
    PROVE  /\ made.layer \in Nat /\ made.layer <= MaxPresses
           /\ Stacked(editor, made.layer) /\ Framed(editor)
           /\ \A i \in DOMAIN wanted : /\ wanted[i] \in Scene
                                      /\ Stacked(wanted[i].content, made.layer)
  <1>1. made.layer \in Nat /\ made.layer <= MaxPresses
    BY SceneAssumption DEF CollectionInv, Counted
  <1>2. \A i \in DOMAIN wanted :
            wanted[i] \in Scene /\ Stacked(wanted[i].content, made.layer)
    BY DEF CollectionInv, BookTypes, Book
  <1>3. QED
    BY <1>1, <1>2 DEF CollectionInv, EditorTypes

\* An edit that asks for the contents asked, one for each scene of the collection.
EditTo(asked) ==
    /\ joined /\ Press /\ Persist /\ dirty' = TRUE
    /\ scenes' = Put(scenes, selected, editor')
    /\ wanted' = [i \in DOMAIN wanted |->
                    IF wanted[i].key = selected
                    THEN [wanted[i] EXCEPT !.content = asked[i]] ELSE wanted[i]]
    /\ Note(If("editInUpload", upload # NoUpload) \cup If("editInCut", job # NoJob))
    /\ UNCHANGED <<session, load, selected, output, upload, job, made, active>>

\* It writes the selected scene anew, if it keeps the layers of a content apart.
LEMMA EditComes ==
    ASSUME CollectionInv, NEW asked, EditTo(asked),
           Stacked(editor', made.layer), Framed(editor'),
           \A i \in DOMAIN wanted :
                /\ Stacked(asked[i], made.layer)
                /\ wanted[i].content = editor => asked[i] = editor',
           preview' \in Camera \cup {None},
           preview = Shown(editor.source) => preview' = Shown(editor'.source)
    PROVE  EditStep
  <1>1. \A i \in DOMAIN wanted : wanted[i] \in Scene /\ asked[i] \in Content
    BY WantedStacked DEF Stacked
  <1>2. Written(wanted, wanted', selected, made.layer)
        /\ \A i \in DOMAIN wanted :
              wanted[i].key = selected => wanted'[i].content = asked[i]
    BY <1>1 DEF EditTo, Written, Scene
  <1>3. QED
    BY <1>2 DEF EditTo, EditStep, Rewrites

\* The layers of the editor are layers.
LEMMA LayerOfEditor ==
    ASSUME CollectionInv
    PROVE  \A l \in editor.layers : l \in Layer
  BY DEF CollectionInv, EditorTypes, Stacked, Content

\* A camera that is added is the scene's camera.
LEMMA CameraAdded ==
    ASSUME CollectionInv, NEW id \in Camera, AddCameraSource(id)
    PROVE  EditStep
  <1> USE DEF AddCameraSource, EditCamera, Edit, Commit, Ask
  <1> DEFINE asked == [i \in DOMAIN wanted |-> AddCamera(wanted[i].content, id)]
  <1>1. /\ editor' = AddCamera(editor, id) /\ EditTo(asked)
        /\ preview' \in Camera \cup {None}
    <2>1. /\ editor' = AddCamera(editor, id)
          /\ wanted' = [i \in DOMAIN wanted |->
                          IF wanted[i].key = selected
                          THEN [wanted[i] EXCEPT !.content = asked[i]] ELSE wanted[i]]
      OBVIOUS
    <2> HIDE DEF asked
    <2>2. QED
      BY <2>1 DEF EditTo, CollectionInv, PageTypes, camera
  <1>2. \A c : Stacked(c, made.layer) => Stacked(AddCamera(c, id), made.layer)
    BY WantedStacked, Directed
  <1>3. Framed(editor') /\ editor'.source = id
    BY <1>1, WantedStacked, Directs
  <1>4. preview = Shown(editor.source) => preview' = Shown(editor'.source)
    BY <1>3 DEF Shown, camera
  <1>5. \A i \in DOMAIN wanted :
            /\ Stacked(asked[i], made.layer)
            /\ wanted[i].content = editor => asked[i] = editor'
    BY <1>1, <1>2, WantedStacked
  <1>6. Stacked(editor', made.layer)
    BY <1>1, <1>2, WantedStacked
  <1> HIDE DEF asked
  <1>7. QED
    BY <1>1, <1>3, <1>4, <1>5, <1>6, EditComes

\* So is one that is selected of those it has.
LEMMA CameraSelected ==
    ASSUME CollectionInv, NEW id \in Camera, SelectCameraSource(id)
    PROVE  EditStep
  <1> USE DEF SelectCameraSource, EditCamera, Edit, Commit, Ask
  <1> DEFINE asked == [i \in DOMAIN wanted |-> SelectCamera(wanted[i].content, id)]
  <1>1. /\ editor' = SelectCamera(editor, id) /\ EditTo(asked)
        /\ preview' \in Camera \cup {None}
    <2>1. /\ editor' = SelectCamera(editor, id)
          /\ wanted' = [i \in DOMAIN wanted |->
                          IF wanted[i].key = selected
                          THEN [wanted[i] EXCEPT !.content = asked[i]] ELSE wanted[i]]
      OBVIOUS
    <2> HIDE DEF asked
    <2>2. QED
      BY <2>1 DEF EditTo, CollectionInv, PageTypes, camera
  <1>2. \A c : Stacked(c, made.layer) => Stacked(SelectCamera(c, id), made.layer)
    BY WantedStacked, Directed
  <1>3. Framed(editor') /\ editor'.source = id
    BY <1>1, WantedStacked, Directs
  <1>4. preview = Shown(editor.source) => preview' = Shown(editor'.source)
    BY <1>3 DEF Shown, camera
  <1>5. \A i \in DOMAIN wanted :
            /\ Stacked(asked[i], made.layer)
            /\ wanted[i].content = editor => asked[i] = editor'
    BY <1>1, <1>2, WantedStacked
  <1>6. Stacked(editor', made.layer)
    BY <1>1, <1>2, WantedStacked
  <1> HIDE DEF asked
  <1>7. QED
    BY <1>1, <1>3, <1>4, <1>5, <1>6, EditComes

\* One that is removed leaves the Preview when it was there.
LEMMA CameraRemoved ==
    ASSUME CollectionInv, NEW id \in Camera, RemoveCameraSource(id)
    PROVE  EditStep
  <1> USE DEF RemoveCameraSource, EditCamera, Edit, Commit, Ask
  <1> DEFINE asked == [i \in DOMAIN wanted |-> RemoveCamera(wanted[i].content, id)]
  <1>1. /\ editor' = RemoveCamera(editor, id) /\ EditTo(asked)
        /\ preview' \in Camera \cup {None}
    <2>1. /\ editor' = RemoveCamera(editor, id)
          /\ wanted' = [i \in DOMAIN wanted |->
                          IF wanted[i].key = selected
                          THEN [wanted[i] EXCEPT !.content = asked[i]] ELSE wanted[i]]
      OBVIOUS
    <2> HIDE DEF asked
    <2>2. QED
      BY <2>1 DEF EditTo, CollectionInv, PageTypes, camera
  <1>2. \A c : Stacked(c, made.layer) => Stacked(RemoveCamera(c, id), made.layer)
    BY WantedStacked, Directed
  <1>3. /\ Framed(editor')
        /\ editor'.source = IF editor.source = id THEN None ELSE editor.source
    BY <1>1, WantedStacked, Directs
  <1>4. preview = Shown(editor.source) => preview' = Shown(editor'.source)
    BY <1>3 DEF Shown, camera
  <1>5. \A i \in DOMAIN wanted :
            /\ Stacked(asked[i], made.layer)
            /\ wanted[i].content = editor => asked[i] = editor'
    BY <1>1, <1>2, WantedStacked
  <1>6. Stacked(editor', made.layer)
    BY <1>1, <1>2, WantedStacked
  <1> HIDE DEF asked
  <1>7. QED
    BY <1>1, <1>3, <1>4, <1>5, <1>6, EditComes

\* A layer that is shown or hidden stays where it is.
LEMMA LayerToggled ==
    ASSUME CollectionInv, NEW l \in editor.layers,
           EditLayers(LAMBDA c : Toggle(c, l))
    PROVE  EditStep
  <1> USE DEF EditLayers, Edit, Commit, Ask
  <1> DEFINE asked == [i \in DOMAIN wanted |-> Toggle(wanted[i].content, l)]
  <1>1. /\ editor' = Toggle(editor, l) /\ EditTo(asked)
        /\ preview' \in Camera \cup {None}
    <2>1. /\ editor' = Toggle(editor, l)
          /\ wanted' = [i \in DOMAIN wanted |->
                          IF wanted[i].key = selected
                          THEN [wanted[i] EXCEPT !.content = asked[i]] ELSE wanted[i]]
      OBVIOUS
    <2> HIDE DEF asked
    <2>2. QED
      BY <2>1 DEF EditTo, CollectionInv, PageTypes, camera
  <1>2. \A c : Stacked(c, made.layer) => Stacked(Toggle(c, l), made.layer)
    BY WantedStacked, Patched, LayerOfEditor
  <1>3. Framed(editor') /\ editor'.source = editor.source
    BY <1>1, WantedStacked, Patched, LayerOfEditor
  <1>4. preview = Shown(editor.source) => preview' = Shown(editor'.source)
    BY <1>3 DEF Shown, camera
  <1>5. \A i \in DOMAIN wanted :
            /\ Stacked(asked[i], made.layer)
            /\ wanted[i].content = editor => asked[i] = editor'
    BY <1>1, <1>2, WantedStacked
  <1>6. Stacked(editor', made.layer)
    BY <1>1, <1>2, WantedStacked
  <1> HIDE DEF asked
  <1>7. QED
    BY <1>1, <1>3, <1>4, <1>5, <1>6, EditComes

\* A layer that is removed leaves the others.
LEMMA LayerRemoved ==
    ASSUME CollectionInv, NEW l \in editor.layers,
           EditLayers(LAMBDA c : RemoveLayer(c, l.id))
    PROVE  EditStep
  <1> USE DEF EditLayers, Edit, Commit, Ask
  <1> DEFINE asked == [i \in DOMAIN wanted |-> RemoveLayer(wanted[i].content, l.id)]
  <1>1. /\ editor' = RemoveLayer(editor, l.id) /\ EditTo(asked)
        /\ preview' \in Camera \cup {None}
    <2>1. /\ editor' = RemoveLayer(editor, l.id)
          /\ wanted' = [i \in DOMAIN wanted |->
                          IF wanted[i].key = selected
                          THEN [wanted[i] EXCEPT !.content = asked[i]] ELSE wanted[i]]
      OBVIOUS
    <2> HIDE DEF asked
    <2>2. QED
      BY <2>1 DEF EditTo, CollectionInv, PageTypes, camera
  <1>2. \A c : Stacked(c, made.layer) => Stacked(RemoveLayer(c, l.id), made.layer)
    BY WantedStacked, Removed, LayerOfEditor
  <1>3. Framed(editor') /\ editor'.source = editor.source
    BY <1>1, WantedStacked, Removed, LayerOfEditor
  <1>4. preview = Shown(editor.source) => preview' = Shown(editor'.source)
    BY <1>3 DEF Shown, camera
  <1>5. \A i \in DOMAIN wanted :
            /\ Stacked(asked[i], made.layer)
            /\ wanted[i].content = editor => asked[i] = editor'
    BY <1>1, <1>2, WantedStacked
  <1>6. Stacked(editor', made.layer)
    BY <1>1, <1>2, WantedStacked
  <1> HIDE DEF asked
  <1>7. QED
    BY <1>1, <1>3, <1>4, <1>5, <1>6, EditComes

\* A layer that is moved stays in the frame.
LEMMA LayerMoved ==
    ASSUME CollectionInv, NEW l \in editor.layers, NEW value \in Int,
           EditLayers(LAMBDA c : Move(c, l, value))
    PROVE  EditStep
  <1> USE DEF EditLayers, Edit, Commit, Ask
  <1> DEFINE asked == [i \in DOMAIN wanted |-> Move(wanted[i].content, l, value)]
  <1>1. /\ editor' = Move(editor, l, value) /\ EditTo(asked)
        /\ preview' \in Camera \cup {None}
    <2>1. /\ editor' = Move(editor, l, value)
          /\ wanted' = [i \in DOMAIN wanted |->
                          IF wanted[i].key = selected
                          THEN [wanted[i] EXCEPT !.content = asked[i]] ELSE wanted[i]]
      OBVIOUS
    <2> HIDE DEF asked
    <2>2. QED
      BY <2>1 DEF EditTo, CollectionInv, PageTypes, camera
  <1>2. \A c : Stacked(c, made.layer) => Stacked(Move(c, l, value), made.layer)
    BY WantedStacked, Patched, LayerOfEditor
  <1>3. Framed(editor') /\ editor'.source = editor.source
    BY <1>1, WantedStacked, Patched, LayerOfEditor
  <1>4. preview = Shown(editor.source) => preview' = Shown(editor'.source)
    BY <1>3 DEF Shown, camera
  <1>5. \A i \in DOMAIN wanted :
            /\ Stacked(asked[i], made.layer)
            /\ wanted[i].content = editor => asked[i] = editor'
    BY <1>1, <1>2, WantedStacked
  <1>6. Stacked(editor', made.layer)
    BY <1>1, <1>2, WantedStacked
  <1> HIDE DEF asked
  <1>7. QED
    BY <1>1, <1>3, <1>4, <1>5, <1>6, EditComes

\* A layer that is resized stays in the frame.
LEMMA LayerResized ==
    ASSUME CollectionInv, NEW l \in editor.layers, NEW value \in Int,
           EditLayers(LAMBDA c : Resize(c, l, value))
    PROVE  EditStep
  <1> USE DEF EditLayers, Edit, Commit, Ask
  <1> DEFINE asked == [i \in DOMAIN wanted |-> Resize(wanted[i].content, l, value)]
  <1>1. /\ editor' = Resize(editor, l, value) /\ EditTo(asked)
        /\ preview' \in Camera \cup {None}
    <2>1. /\ editor' = Resize(editor, l, value)
          /\ wanted' = [i \in DOMAIN wanted |->
                          IF wanted[i].key = selected
                          THEN [wanted[i] EXCEPT !.content = asked[i]] ELSE wanted[i]]
      OBVIOUS
    <2> HIDE DEF asked
    <2>2. QED
      BY <2>1 DEF EditTo, CollectionInv, PageTypes, camera
  <1>2. \A c : Stacked(c, made.layer) => Stacked(Resize(c, l, value), made.layer)
    BY WantedStacked, Patched, LayerOfEditor
  <1>3. Framed(editor') /\ editor'.source = editor.source
    BY <1>1, WantedStacked, Patched, LayerOfEditor
  <1>4. preview = Shown(editor.source) => preview' = Shown(editor'.source)
    BY <1>3 DEF Shown, camera
  <1>5. \A i \in DOMAIN wanted :
            /\ Stacked(asked[i], made.layer)
            /\ wanted[i].content = editor => asked[i] = editor'
    BY <1>1, <1>2, WantedStacked
  <1>6. Stacked(editor', made.layer)
    BY <1>1, <1>2, WantedStacked
  <1> HIDE DEF asked
  <1>7. QED
    BY <1>1, <1>3, <1>4, <1>5, <1>6, EditComes

\* Layers that are reordered come to places of their own.
LEMMA LayerReordered ==
    ASSUME CollectionInv, NEW l \in editor.layers, NEW target \in editor.layers,
           EditLayers(LAMBDA c : Reorder(c, l.id, target.id))
    PROVE  EditStep
  <1> USE DEF EditLayers, Edit, Commit, Ask
  <1> DEFINE asked ==
        [i \in DOMAIN wanted |-> Reorder(wanted[i].content, l.id, target.id)]
  <1>1. /\ editor' = Reorder(editor, l.id, target.id) /\ EditTo(asked)
        /\ preview' \in Camera \cup {None}
    <2>1. /\ editor' = Reorder(editor, l.id, target.id)
          /\ wanted' = [i \in DOMAIN wanted |->
                          IF wanted[i].key = selected
                          THEN [wanted[i] EXCEPT !.content = asked[i]] ELSE wanted[i]]
      OBVIOUS
    <2> HIDE DEF asked
    <2>2. QED
      BY <2>1 DEF EditTo, CollectionInv, PageTypes, camera
  <1>2. \A c : Stacked(c, made.layer) => Stacked(Reorder(c, l.id, target.id), made.layer)
    BY WantedStacked, Reordered, LayerOfEditor
  <1>3. Framed(editor') /\ editor'.source = editor.source
    BY <1>1, WantedStacked, Reordered, LayerOfEditor
  <1>4. preview = Shown(editor.source) => preview' = Shown(editor'.source)
    BY <1>3 DEF Shown, camera
  <1>5. \A i \in DOMAIN wanted :
            /\ Stacked(asked[i], made.layer)
            /\ wanted[i].content = editor => asked[i] = editor'
    BY <1>1, <1>2, WantedStacked
  <1>6. Stacked(editor', made.layer)
    BY <1>1, <1>2, WantedStacked
  <1> HIDE DEF asked
  <1>7. QED
    BY <1>1, <1>3, <1>4, <1>5, <1>6, EditComes

\* Every edit of the page is one.
LEMMA Edits ==
    ASSUME CollectionInv,
           \/ \E id \in Camera : \/ AddCameraSource(id)
                                 \/ SelectCameraSource(id)
                                 \/ RemoveCameraSource(id)
           \/ UpdateSceneLayers
    PROVE  EditStep
  <1>1. ASSUME NEW id \in Camera,
               AddCameraSource(id) \/ SelectCameraSource(id) \/ RemoveCameraSource(id)
        PROVE  EditStep
    BY <1>1, CameraAdded, CameraSelected, CameraRemoved
  <1>2. CASE UpdateSceneLayers
    <2>1. PICK l \in editor.layers :
            \/ EditLayers(LAMBDA c : Toggle(c, l))
            \/ EditLayers(LAMBDA c : RemoveLayer(c, l.id))
            \/ \E value \in {-1, Full} : \/ EditLayers(LAMBDA c : Move(c, l, value))
                                         \/ EditLayers(LAMBDA c : Resize(c, l, value))
            \/ \E target \in editor.layers \ {l} :
                    EditLayers(LAMBDA c : Reorder(c, l.id, target.id))
      BY <1>2 DEF UpdateSceneLayers
    <2>2. CASE EditLayers(LAMBDA c : Toggle(c, l))
      BY <2>2, LayerToggled
    <2>3. CASE EditLayers(LAMBDA c : RemoveLayer(c, l.id))
      BY <2>3, LayerRemoved
    <2>4. ASSUME NEW value \in {-1, Full},
                 \/ EditLayers(LAMBDA c : Move(c, l, value))
                 \/ EditLayers(LAMBDA c : Resize(c, l, value))
          PROVE  EditStep
      <3>1. value \in Int
        BY SceneAssumption
      <3>2. QED
        BY <2>4, <3>1, LayerMoved, LayerResized
    <2>5. ASSUME NEW target \in editor.layers,
                 EditLayers(LAMBDA c : Reorder(c, l.id, target.id))
          PROVE  EditStep
      BY <2>5, LayerReordered
    <2>6. QED
      BY <2>1, <2>2, <2>3, <2>4, <2>5
  <1>3. QED
    BY <1>1, <1>2

\* A scene that the page is opened with is one that the editor may have.
LEMMA BaseStacked ==
    ASSUME NEW n \in Nat, NEW base \in Base
    PROVE  Stacked(base, n) /\ Framed(base)
  <1> USE SceneAssumption
  <1>1. Stacked(Empty, n) /\ Framed(Empty)
    BY DEF Stacked, Content, Framed, Empty
  <1>2. ASSUME NEW id \in Camera
        PROVE  Stacked(AddCamera(Empty, id), n) /\ Framed(AddCamera(Empty, id))
    BY <1>1, Directed, Directs
  <1>3. Stacked(AddImage(Empty, 0), n) /\ Framed(AddImage(Empty, 0))
    <2> DEFINE top == CHOOSE t \in Id : /\ t = 0 \/ \E l \in Empty.layers : l.z = t
                                        /\ \A l \in Empty.layers : l.z <= t
               new == [id |-> 0, z |-> top + 1, x |-> NewX, width |-> NewWidth,
                       visible |-> TRUE]
    <2>1. top = 0
      <3>1. Empty.layers = {} /\ 0 \in Id
        BY DEF Empty, Id
      <3>2. QED
        BY <3>1
    <2>2. AddImage(Empty, 0) = [Empty EXCEPT !.layers = @ \cup {new}]
      BY DEF AddImage
    <2> HIDE DEF top
    <2>3. new \in Layer /\ new.id = 0 /\ new.z = 1
      BY <2>1 DEF Layer, Id
    <2>4. new.x + new.width <= Full /\ new.width >= Least
      OBVIOUS
    <2> HIDE DEF new
    <2>5. /\ AddImage(Empty, 0) \in Content /\ AddImage(Empty, 0).layers = {new}
          /\ AddImage(Empty, 0).source = None
      BY <2>2, <2>3 DEF Empty, Content
    <2>6. QED
      BY <2>3, <2>4, <2>5 DEF Stacked, Framed
  <1>4. QED
    BY <1>1, <1>2, <1>3 DEF Base

\* A collection of one scene.
LEMMA OneScene ==
    ASSUME CollectionInv, NEW base, Stacked(base, made.layer), Framed(base),
           NEW items, items = <<[key |-> 1, content |-> base]>>
    PROVE  /\ FramedBook(items, made) /\ items # <<>> /\ Len(items) = 1
           /\ items[1].key = 1 /\ items[1].content = base
  <1>1. [key |-> 1, content |-> base] \in Scene
    BY SceneAssumption DEF Scene, Stacked, Id
  <1>2. /\ items \in Seq(Scene) /\ Len(items) = 1 /\ items # <<>> /\ DOMAIN items = {1}
        /\ items[1].key = 1 /\ items[1].content = base
    BY <1>1
  <1>3. QED
    BY <1>2 DEF CollectionInv, Counted, FramedBook, Book

\* What stands first in a collection that is not empty.
LEMMA FirstOf ==
    ASSUME NEW items, Book(items, made), items # <<>>
   
    PROVE  1 \in DOMAIN items /\ items[1] \in Scene /\ items[1].key \in KeysOf(items)
  BY DEF Book, KeysOf

\* A content that is written anew stays in three collections.
LEMMA RewritesBooks ==
    ASSUME CollectionInv, NEW key, NEW old, Rewrites(key, old),
           made' \in [scene: Nat, layer: Nat],
           made.scene <= made'.scene, made.layer <= made'.layer
   
    PROVE  /\ FramedBook(scenes, made)' /\ FramedBook(stored, made)'
           /\ Book(wanted, made)'
           /\ KeysOf(scenes)' = Keys /\ scenes' # <<>>
           /\ Stacked(editor, made.layer)' /\ Framed(editor)'
  <1>1. made \in [scene: Nat, layer: Nat]
    BY DEF CollectionInv, Counted
  <1>2. FramedBook(scenes, made') /\ FramedBook(stored, made') /\ Book(wanted, made')
    BY <1>1, BookStays DEF CollectionInv, BookTypes
  <1>3. FramedBook(scenes', made') /\ Written(scenes, scenes', key, made'.layer)
    BY <1>2, PutWrites DEF Rewrites, FramedBook
  <1>4. KeysOf(scenes') = Keys /\ scenes' # <<>>
    BY <1>2, <1>3, WrittenBook DEF Keys, FramedBook, CollectionInv, BookTypes
  <1>5. Book(wanted', made')
    BY <1>2, WrittenBook DEF Rewrites
  <1>6. FramedBook(stored', made')
    BY <1>2, <1>3 DEF Rewrites, Persist
  <1>7. QED
    BY <1>3, <1>4, <1>5, <1>6 DEF Rewrites

\* The layer of an upload, written where it was begun.
LEMMA ImageAdded ==
    ASSUME CollectionInv, AddImageLayer
    PROVE  /\ Rewrites(upload.key, upload.content)
           /\ editor'.source = upload.content.source
           /\ made' \in [scene: Nat, layer: Nat]
           /\ made'.scene = made.scene /\ made'.layer = made.layer + 1
           /\ made.layer + 1 <= presses
  <1> USE SceneAssumption
  <1> DEFINE n == made.layer
             new == AddImage(upload.content, n + 1)
  <1>1. /\ editor' = new /\ scenes' = Put(scenes, upload.key, editor') /\ Persist
        /\ wanted' = [i \in DOMAIN wanted |->
                        IF wanted[i].key = upload.key
                        THEN [wanted[i] EXCEPT !.content = AddImage(@, n + 1)]
                        ELSE wanted[i]]
        /\ made' = [made EXCEPT !.layer = n + 1] /\ upload # NoUpload
    BY DEF AddImageLayer, Commit, Ask
  <1>2. /\ made \in [scene: Nat, layer: Nat] /\ n + 1 <= presses
        /\ n < MaxPresses /\ n \in Nat
        /\ Stacked(upload.content, n) /\ Framed(upload.content)
    BY <1>1 DEF CollectionInv, Counted, EditorTypes
  <1>3. /\ made' \in [scene: Nat, layer: Nat] /\ made'.scene = made.scene
        /\ made'.layer = n + 1
    BY <1>1, <1>2
  <1>4. Stacked(new, n + 1) /\ Framed(new) /\ new.source = upload.content.source
    BY <1>2, Added
  <1>5. \A i \in DOMAIN wanted :
            /\ wanted[i] \in Scene
            /\ Stacked(AddImage(wanted[i].content, n + 1), n + 1)
            /\ AddImage(wanted[i].content, n + 1) \in Content
    BY <1>2, WantedStacked, Added DEF Stacked
  <1>6. Written(wanted, wanted', upload.key, n + 1)
        /\ \A i \in DOMAIN wanted : wanted[i].key = upload.key
              => wanted'[i].content = AddImage(wanted[i].content, n + 1)
    BY ONLY <1>1, <1>5 DEF Written, Scene
  <1>7. QED
    BY <1>1, <1>2, <1>3, <1>4, <1>6 DEF Rewrites

\* A scene that is added or duplicated, behind the others.
LEMMA SceneAppended ==
    ASSUME CollectionInv, NEW content, NEW asked, AppendScene(content, asked),
           Stacked(content, made.layer), Framed(content), Stacked(asked, made.layer)
   
    PROVE  /\ FramedBook(scenes, made)' /\ FramedBook(stored, made)'
           /\ Book(wanted, made)'
           /\ scenes' # <<>> /\ selected' \in KeysOf(scenes)'
           /\ selected' = made.scene + 1 /\ editor' = content
           /\ Stacked(editor, made.layer)' /\ Framed(editor)'
           /\ made' \in [scene: Nat, layer: Nat] /\ made'.scene = made.scene + 1
           /\ made'.layer = made.layer /\ preview' \in Camera \cup {None}
           /\ \A i \in DOMAIN scenes' :
                \/ i \in DOMAIN scenes /\ scenes'[i] = scenes[i]
                \/ scenes'[i] = [key |-> selected', content |-> content]
           /\ load = "done" => stored' = scenes'
           /\ scenes = wanted /\ asked = content => scenes' = wanted'
  <1> USE SceneAssumption
  <1> DEFINE item == [key |-> made.scene + 1, content |-> content]
             said == [key |-> made.scene + 1, content |-> asked]
  <1>1. /\ scenes' = Append(scenes, item) /\ Persist /\ Press
        /\ made' = [made EXCEPT !.scene = @ + 1]
        /\ selected' = made.scene + 1 /\ editor' = content
        /\ preview' = Shown(content.source)
    BY DEF AppendScene, Open
  <1>2. wanted' = Append(wanted, said)
    <2>1. [item EXCEPT !.content = asked] = said
      OBVIOUS
    <2>2. QED
      BY <2>1 DEF AppendScene
  <1>3. /\ made \in [scene: Nat, layer: Nat] /\ made.scene + 1 \in Id
        /\ made.scene \in Nat /\ made.layer \in Nat
    BY <1>1 DEF CollectionInv, Counted, Press, Id
  <1>4. /\ made' \in [scene: Nat, layer: Nat] /\ made'.scene = made.scene + 1
        /\ made'.layer = made.layer
    BY <1>1, <1>3
  <1>5. Book(scenes, made) /\ FramedBook(scenes, made) /\ Book(wanted, made)
        /\ FramedBook(stored, made)
    BY DEF CollectionInv, BookTypes, FramedBook
  <1>6. /\ FramedBook(scenes', made') /\ scenes' # <<>>
        /\ KeysOf(scenes') = KeysOf(scenes) \cup {made.scene + 1}
        /\ DOMAIN scenes' = DOMAIN scenes \cup {Len(scenes) + 1}
        /\ scenes'[Len(scenes) + 1] = item
        /\ \A i \in DOMAIN scenes : scenes'[i] = scenes[i]
    BY <1>1, <1>3, <1>5, AppendBook
  <1>7. Book(wanted', made')
    BY <1>1, <1>2, <1>3, <1>5, AppendBook
  <1>8. FramedBook(stored', made')
    <2>1. FramedBook(stored, made')
      <3>1. {made, made'} \subseteq [scene: Nat, layer: Nat]
            /\ made.scene <= made'.scene /\ made.layer <= made'.layer
        BY <1>3, <1>4
      <3>2. QED
        BY <1>5, <3>1, BookStays
    <2>2. QED
      BY <1>1, <1>6, <2>1 DEF Persist
  <1>9. preview' \in Camera \cup {None}
    BY <1>1 DEF Shown, Stacked, Content
  <1>10. QED
    BY <1>1, <1>2, <1>4, <1>6, <1>7, <1>8, <1>9 DEF Persist

\* The scene that is deleted, and what is opened instead.
LEMMA SceneDeleted ==
    ASSUME CollectionInv, NEW key \in Keys, DeleteStudioScene(key)
   
    PROVE  /\ FramedBook(scenes, made)' /\ FramedBook(stored, made)'
           /\ Book(wanted, made)'
           /\ scenes' # <<>> /\ selected' \in KeysOf(scenes)'
           /\ Stacked(editor, made.layer)' /\ Framed(editor)'
           /\ preview' \in Camera \cup {None}
           /\ \A i \in DOMAIN scenes' : \E j \in DOMAIN scenes :
                    scenes'[i] = scenes[j] /\ scenes[j].key # key
           /\ selected = key => \E i \in DOMAIN scenes' :
                    scenes'[i].key = selected' /\ scenes'[i].content = editor'
           /\ selected = key => preview' = Shown(editor'.source)
           /\ selected # key => UNCHANGED <<selected, editor, preview, active>>
           /\ active' = active
  <1>1. /\ scenes' = Without(scenes, key) /\ wanted' = Without(wanted, key)
        /\ Persist /\ made' = made /\ Len(scenes) > 1
        /\ IF selected = key THEN Open(scenes'[1])
           ELSE UNCHANGED <<selected, editor, camera>>
    BY DEF DeleteStudioScene
  <1>2. FramedBook(scenes, made) /\ Book(scenes, made) /\ Book(wanted, made)
        /\ FramedBook(stored, made) /\ selected \in KeysOf(scenes)
    BY DEF CollectionInv, BookTypes, FramedBook, Keys
  <1>3. /\ FramedBook(scenes', made') /\ scenes' # <<>>
        /\ KeysOf(scenes') = KeysOf(scenes) \ {key}
        /\ \A i \in DOMAIN scenes' : \E j \in DOMAIN scenes :
                    scenes'[i] = scenes[j] /\ scenes[j].key # key
    BY <1>1, <1>2, WithoutBook
  <1>4. Book(wanted', made')
    BY <1>1, <1>2, WithoutBook
  <1>5. FramedBook(stored', made')
    BY <1>1, <1>2, <1>3 DEF Persist
  <1>6. /\ 1 \in DOMAIN scenes' /\ scenes'[1] \in Scene
        /\ scenes'[1].key \in KeysOf(scenes')
    BY <1>3 DEF FramedBook, Book, KeysOf
  <1>7. CASE selected = key
    <2>1. /\ selected' = scenes'[1].key /\ editor' = scenes'[1].content
          /\ preview' = Shown(editor'.source) /\ active' = active
      BY <1>1, <1>7 DEF Open
    <2>2. Stacked(editor', made'.layer) /\ Framed(editor')
      BY <1>3, <1>6, <2>1 DEF FramedBook, Book
    <2>3. preview' \in Camera \cup {None}
      BY <2>1, <2>2 DEF Shown, Stacked, Content
    <2>4. QED
      BY <1>3, <1>4, <1>5, <1>6, <1>7, <2>1, <2>2, <2>3
  <1>8. CASE selected # key
    <2>1. UNCHANGED <<selected, editor, preview, active>>
      BY <1>1, <1>8 DEF camera
    <2>2. QED
      BY <1>1, <1>2, <1>3, <1>4, <1>5, <1>8, <2>1
         DEF CollectionInv, EditorTypes, PageTypes
  <1>9. QED
    BY <1>7, <1>8

\* The collection that is loaded: the stored one, or one of the scene that the server has.
LEMMA ScenesLoaded ==
    ASSUME CollectionInv, NEW base \in Base, LoadScenes(base)
   
    PROVE  /\ FramedBook(scenes, made)' /\ FramedBook(stored, made)'
           /\ Book(wanted, made)'
           /\ scenes' # <<>> /\ 1 \in DOMAIN scenes' /\ selected' = scenes'[1].key
           /\ programKey' = selected' /\ selected' \in KeysOf(scenes)'
           /\ programKey' \in 0..made'.scene
           /\ editor' = scenes'[1].content /\ program' = editor'.layers
           /\ Stacked(editor, made.layer)' /\ Framed(editor)'
           /\ \A i \in DOMAIN scenes' : scenes'[i].key = selected' => i = 1
  <1>1. FramedBook(stored, made) /\ Book(wanted, made) /\ made.layer \in Nat
    BY DEF CollectionInv, BookTypes, Counted
  <1>2. Stacked(base, made.layer) /\ Framed(base)
    BY <1>1, BaseStacked
  <1>3. FramedBook(scenes', made) /\ scenes' # <<>> /\ stored' = scenes' /\ made' = made
    BY <1>1, <1>2, OneScene DEF LoadScenes
  <1>4. Book(wanted', made)
    BY <1>1, <1>3 DEF LoadScenes, FramedBook
  <1>5. 1 \in DOMAIN scenes' /\ scenes'[1].key \in KeysOf(scenes')
    BY <1>3, FirstOf DEF FramedBook
  <1>6. /\ scenes'[1].key \in 1..made.scene
        /\ Stacked(scenes'[1].content, made.layer) /\ Framed(scenes'[1].content)
        /\ \A i \in DOMAIN scenes' : scenes'[i].key = scenes'[1].key => i = 1
    BY <1>3, <1>5 DEF FramedBook, Book
  <1>7. /\ selected' = scenes'[1].key /\ programKey' = scenes'[1].key
        /\ editor' = scenes'[1].content /\ program' = editor'.layers
    BY DEF LoadScenes
  <1>8. QED
    BY <1>1, <1>3, <1>4, <1>5, <1>6, <1>7

\* The page that is opened anew.
LEMMA PageReloaded ==
    ASSUME made \in [scene: Nat, layer: Nat], made.scene >= 1
    PROVE  /\ FramedBook(First, made) /\ First # <<>> /\ KeysOf(First) = {1}
           /\ Stacked(Empty, made.layer) /\ Framed(Empty)
           /\ DOMAIN First = {1} /\ First[1].content = Empty /\ First[1].key = 1
  <1>1. Stacked(Empty, made.layer) /\ Framed(Empty)
    BY BaseStacked DEF Base
  <1>2. [key |-> 1, content |-> Empty] \in Scene
    BY <1>1, SceneAssumption DEF Scene, Stacked, Id
  <1>3. /\ First \in Seq(Scene) /\ Len(First) = 1 /\ First # <<>> /\ DOMAIN First = {1}
        /\ First[1].key = 1 /\ First[1].content = Empty
    BY <1>2 DEF First
  <1>4. FramedBook(First, made)
    BY <1>1, <1>3 DEF FramedBook, Book
  <1>5. QED
    BY <1>1, <1>3, <1>4 DEF KeysOf

\* The scene that a key of the collection names.
LEMMA SceneOf ==
    ASSUME CollectionInv, NEW key \in Keys
    PROVE  /\ ItemOf(scenes, key).key = key
           /\ \A i \in DOMAIN scenes :
                scenes[i].key = key => scenes[i] = ItemOf(scenes, key)
           /\ Stacked(ItemOf(scenes, key).content, made.layer)
           /\ Framed(ItemOf(scenes, key).content)
  <1>1. FramedBook(scenes, made) /\ key \in KeysOf(scenes)
    BY DEF CollectionInv, BookTypes, Keys
  <1>2. /\ PlaceOf(scenes, key) \in DOMAIN scenes
        /\ scenes[PlaceOf(scenes, key)].key = key
        /\ \A i \in DOMAIN scenes : scenes[i].key = key => i = PlaceOf(scenes, key)
        /\ ItemOf(scenes, key) = scenes[PlaceOf(scenes, key)]
    BY <1>1, Places DEF FramedBook
  <1>3. QED
    BY <1>1, <1>2 DEF FramedBook, Book

\* A scene that is added is empty, and a duplicate has the content of its scene, and is
\* asked to have what that scene was asked to.
LEMMA Appends ==
    ASSUME CollectionInv, AddStudioScene \/ \E key \in Keys : DuplicateStudioScene(key)
    PROVE  \E content, asked :
                /\ AppendScene(content, asked) /\ Stacked(content, made.layer)
                /\ Framed(content) /\ Stacked(asked, made.layer)
                /\ scenes = wanted => asked = content
  <1>0. BookTypes /\ Counted
    BY DEF CollectionInv
  <1>1. Stacked(Empty, made.layer) /\ Framed(Empty)
    BY <1>0, BaseStacked DEF Base, Counted
  <1>2. CASE AddStudioScene
    BY <1>1, <1>2 DEF AddStudioScene
  <1>3. ASSUME NEW key \in Keys, DuplicateStudioScene(key)
        PROVE  \E content, asked :
                  /\ AppendScene(content, asked) /\ Stacked(content, made.layer)
                  /\ Framed(content) /\ Stacked(asked, made.layer)
                  /\ scenes = wanted => asked = content
    <2>1. Stacked(ItemOf(scenes, key).content, made.layer)
          /\ Framed(ItemOf(scenes, key).content)
      BY SceneOf
    <2>2. key \in KeysOf(wanted) => Stacked(ItemOf(wanted, key).content, made.layer)
      BY <1>0, Places DEF BookTypes, Book
    <2>3. QED
      BY <1>1, <1>3, <2>1, <2>2 DEF DuplicateStudioScene, Keys
  <1>4. QED
    BY <1>2, <1>3

\* A page without its collection has nothing to clear when its server does not answer.
LEMMA EmptyCleared == [Empty EXCEPT !.source = None, !.layers = {}] = Empty
  <1>1. [Empty EXCEPT !.source = None] = Empty
    BY DEF Empty
  <1>2. [Empty EXCEPT !.layers = {}] = Empty
    BY DEF Empty
  <1>3. QED
    BY <1>1, <1>2

\* A step that leaves the collections alone leaves them what they are.
LEMMA BookUnchanged ==
    ASSUME BookTypes, UNCHANGED <<scenes, stored, wanted, selected, made>>,
           programKey' \in 0..made.scene
    PROVE  BookTypes'
  BY DEF BookTypes, Keys

\* And so does the editor, with an upload or when that has ended.
LEMMA EditorUnchanged ==
    ASSUME EditorTypes, UNCHANGED <<editor, made>>,
                                    UNCHANGED upload \/ upload' = NoUpload
    PROVE  EditorTypes'
  BY DEF EditorTypes

\* A press makes nothing by itself.
LEMMA CountUnchanged ==
    ASSUME Counted, made' = made, UNCHANGED upload \/ upload' = NoUpload,
           UNCHANGED presses \/ Press
    PROVE  Counted'
  <1>1. CASE presses' = presses
    BY <1>1 DEF Counted
  <1>2. CASE Press
    BY <1>2, SceneAssumption DEF Counted, Press
  <1>3. QED
    BY <1>1, <1>2

\* Every step keeps the types, the collections with their keys and layers, and the count
\* of what was made.
LEMMA CollectionNext ==
    ASSUME CollectionInv, Next
    PROVE  CollectionInv'
  <1> USE SceneAssumption
  <1>0. PageTypes /\ BookTypes /\ EditorTypes /\ JobTypes /\ Counted
    BY DEF CollectionInv
  <1>1. ASSUME NEW base \in Base, LoadScenes(base) PROVE CollectionInv'
    <2>1. PageTypes' /\ JobTypes' /\ Counted'
      BY <1>0, <1>1 DEF LoadScenes, PageTypes, JobTypes, Counted, session, camera
    <2>2. BookTypes'
      BY <1>1, ScenesLoaded DEF BookTypes, Keys
    <2>3. EditorTypes'
      BY <1>0, <1>1, ScenesLoaded DEF EditorTypes, LoadScenes
    <2>4. QED
      BY <2>1, <2>2, <2>3 DEF CollectionInv
  <1>2. CASE LoadFails
    <2>1. PageTypes' /\ JobTypes' /\ Counted'
      BY <1>0, <1>2, CountUnchanged DEF LoadFails, PageTypes, JobTypes, session,
         camera
    <2>2. BookTypes'
      BY <1>0, <1>2, BookUnchanged DEF LoadFails, BookTypes
    <2>3. EditorTypes'
      <3>1. editor' = [editor EXCEPT !.source = None, !.layers = {}]
            /\ upload' = upload /\ made' = made
        BY <1>2 DEF LoadFails
      <3>2. Stacked(editor', made.layer) /\ Framed(editor')
        BY <1>0, <3>1 DEF EditorTypes, Stacked, Content, Framed
      <3>3. QED
        BY <1>0, <3>1, <3>2 DEF EditorTypes
    <2>4. QED
      BY <2>1, <2>2, <2>3 DEF CollectionInv
  <1>3. CASE Reload
    <2>1. PageTypes' /\ JobTypes' /\ Counted'
      BY <1>0, <1>3, CountUnchanged DEF Reload, PageTypes, JobTypes
    <2>2. /\ FramedBook(First, made) /\ First # <<>> /\ KeysOf(First) = {1}
          /\ Stacked(Empty, made.layer) /\ Framed(Empty)
      BY <1>0, PageReloaded DEF Counted
    <2>3. BookTypes'
      BY <1>0, <1>3, <2>2 DEF Reload, BookTypes, Keys, Counted
    <2>4. EditorTypes'
      BY <1>3, <2>2 DEF Reload, EditorTypes
    <2>5. QED
      BY <2>1, <2>3, <2>4 DEF CollectionInv
  <1>4. ASSUME NEW present \in SUBSET Camera,
               EnterStudio(present) \/ CamerasChange(present)
        PROVE  CollectionInv'
    <2>1. /\ UpdateCameras(present) /\ Press /\ joined' \in BOOLEAN
          /\ UNCHANGED <<live, load, book, dirty, output, upload, job, made>>
          /\ overlaps' \subseteq Overlap
      BY <1>0, <1>4 DEF EnterStudio, CamerasChange, Note, If, Overlap, PageTypes
    <2>2. editor.source \in Camera \cup {None}
      BY <1>0 DEF EditorTypes, Stacked, Content
    <2>3. PageTypes' /\ JobTypes' /\ Counted'
      BY <1>0, <2>1, <2>2, CountUnchanged DEF PageTypes, JobTypes, UpdateCameras
    <2>4. BookTypes' /\ EditorTypes'
      BY <1>0, <2>1, BookUnchanged, EditorUnchanged DEF book, output, BookTypes
    <2>5. QED
      BY <2>3, <2>4 DEF CollectionInv
  <1>17. ASSUME NEW id \in Camera, DisconnectSource(id) PROVE CollectionInv'
    <2>1. /\ Press /\ UNCHANGED <<session, load, book, dirty, output, upload, job, made>>
          /\ preview' \in {preview, None} /\ active' \in {active, None}
          /\ overlaps' \subseteq Overlap
      BY <1>0, <1>17 DEF DisconnectSource, Note, If, Overlap, PageTypes
    <2>2. PageTypes' /\ JobTypes' /\ Counted'
      BY <1>0, <2>1, CountUnchanged DEF PageTypes, JobTypes, session
    <2>3. BookTypes' /\ EditorTypes'
      BY <1>0, <2>1, BookUnchanged, EditorUnchanged DEF book, output, BookTypes
    <2>4. QED
      BY <2>2, <2>3 DEF CollectionInv
  <1>5. CASE LeaveStudio \/ UploadFails \/ JobFails
    <2>1. PageTypes' /\ JobTypes' /\ Counted'
      BY <1>0, <1>5, CountUnchanged
         DEF LeaveStudio, UploadFails, JobFails, PageTypes, JobTypes, session, camera
    <2>2. BookTypes' /\ EditorTypes'
      BY <1>0, <1>5, BookUnchanged, EditorUnchanged
         DEF LeaveStudio, UploadFails, JobFails, book, output, BookTypes
    <2>3. QED
      BY <2>1, <2>2 DEF CollectionInv
  <1>6. CASE EditStep
    <2>1. PageTypes' /\ JobTypes' /\ Counted'
      BY <1>0, <1>6, CountUnchanged
         DEF EditStep, PageTypes, JobTypes, session, Note, If, Overlap
    <2>2. /\ made' = made /\ Rewrites(selected, editor)
          /\ made \in [scene: Nat, layer: Nat]
      BY <1>0, <1>6 DEF EditStep, Counted
    <2>3. /\ FramedBook(scenes, made)' /\ FramedBook(stored, made)'
          /\ Book(wanted, made)'
          /\ KeysOf(scenes)' = Keys /\ scenes' # <<>>
          /\ Stacked(editor, made.layer)' /\ Framed(editor)'
      BY <2>2, RewritesBooks
    <2>4. BookTypes'
      BY <1>0, <1>6, <2>2, <2>3 DEF EditStep, output, BookTypes, Keys
    <2>5. EditorTypes'
      BY <1>0, <1>6, <2>3 DEF EditStep, EditorTypes
    <2>6. QED
      BY <2>1, <2>4, <2>5 DEF CollectionInv
  <1>7. CASE PickImage
    <2>1. PageTypes' /\ JobTypes' /\ BookTypes'
      BY <1>0, <1>7, BookUnchanged
         DEF PickImage, PageTypes, JobTypes, session, camera, book, output, BookTypes
    <2>2. Counted'
      BY <1>0, <1>7 DEF PickImage, Counted, Press
    <2>3. selected \in 1..made.scene
      BY <1>0 DEF BookTypes, FramedBook, Book, Keys, KeysOf
    <2>4. editor \in Content
      BY <1>0 DEF EditorTypes, Stacked
    <2>5. EditorTypes'
      BY <1>0, <1>7, <2>3, <2>4 DEF PickImage, EditorTypes, book
    <2>6. QED
      BY <2>1, <2>2, <2>5 DEF CollectionInv
  <1>8. CASE AddImageLayer
    <2>1. PageTypes' /\ JobTypes'
      BY <1>0, <1>8
         DEF AddImageLayer, PageTypes, JobTypes, session, camera, Note, If, Overlap
    <2>2. /\ Rewrites(upload.key, upload.content) /\ made' \in [scene: Nat, layer: Nat]
          /\ made'.scene = made.scene /\ made'.layer = made.layer + 1
          /\ made.layer + 1 <= presses
      BY <1>8, ImageAdded
    <2>3. made.scene <= made'.scene /\ made.layer <= made'.layer
      BY <1>0, <2>2 DEF Counted
    <2>4. /\ FramedBook(scenes, made)' /\ FramedBook(stored, made)'
          /\ Book(wanted, made)'
          /\ KeysOf(scenes)' = Keys /\ scenes' # <<>>
          /\ Stacked(editor, made.layer)' /\ Framed(editor)'
      BY <2>2, <2>3, RewritesBooks
    <2>5. UNCHANGED <<selected, programKey, presses>> /\ upload' = NoUpload
      BY <1>8 DEF AddImageLayer, output
    <2>6. BookTypes'
      BY <1>0, <2>2, <2>4, <2>5 DEF BookTypes, Keys
    <2>7. EditorTypes'
      BY <2>4, <2>5 DEF EditorTypes
    <2>8. Counted'
      BY <1>0, <2>2, <2>5 DEF Counted
    <2>9. QED
      BY <2>1, <2>6, <2>7, <2>8 DEF CollectionInv
  <1>9. ASSUME NEW key \in Keys, SelectStudioScene(key) PROVE CollectionInv'
    <2>1. /\ ItemOf(scenes, key).key = key
          /\ Stacked(ItemOf(scenes, key).content, made.layer)
          /\ Framed(ItemOf(scenes, key).content)
      BY SceneOf
    <2>2. /\ selected' = key /\ editor' = ItemOf(scenes, key).content
          /\ preview' = Shown(editor'.source) /\ active' = active
      BY <1>9, <2>1 DEF SelectStudioScene, Open
    <2>3. preview' \in Camera \cup {None}
      BY <2>1, <2>2 DEF Shown, Stacked, Content
    <2>4. PageTypes' /\ JobTypes' /\ Counted'
      BY <1>0, <1>9, <2>2, <2>3, CountUnchanged
         DEF SelectStudioScene, PageTypes, JobTypes, session, Note, If, Overlap
    <2>5. BookTypes'
      BY <1>0, <1>9, <2>2 DEF SelectStudioScene, BookTypes, Keys, output
    <2>6. EditorTypes'
      BY <1>0, <1>9, <2>1, <2>2 DEF SelectStudioScene, EditorTypes
    <2>7. QED
      BY <2>4, <2>5, <2>6 DEF CollectionInv
  <1>10. ASSUME NEW content, NEW asked, AppendScene(content, asked),
                Stacked(content, made.layer), Framed(content), Stacked(asked, made.layer)
         PROVE  CollectionInv'
    <2>1. /\ FramedBook(scenes, made)' /\ FramedBook(stored, made)'
          /\ Book(wanted, made)'
          /\ scenes' # <<>> /\ selected' \in KeysOf(scenes)'
          /\ Stacked(editor, made.layer)' /\ Framed(editor)'
          /\ made' \in [scene: Nat, layer: Nat] /\ made'.scene = made.scene + 1
          /\ made'.layer = made.layer /\ preview' \in Camera \cup {None}
      BY <1>10, SceneAppended
    <2>2. /\ UNCHANGED <<session, load, output, upload, job, active>> /\ Press
          /\ dirty' = TRUE /\ overlaps' \subseteq Overlap
      BY <1>0, <1>10 DEF AppendScene, Open, PageTypes, Note, If, Overlap
    <2>3. PageTypes'
      BY <1>0, <2>1, <2>2 DEF PageTypes, session
    <2>4. BookTypes'
      BY <1>0, <2>1, <2>2 DEF BookTypes, Keys, output, Counted
    <2>5. Counted'
      BY <1>0, <2>1, <2>2 DEF Counted, Press
    <2>6. EditorTypes'
      BY <1>0, <2>1, <2>2 DEF EditorTypes, Counted
    <2>7. JobTypes'
      BY <1>0, <2>1, <2>2 DEF JobTypes, Counted
    <2>8. QED
      BY <2>3, <2>4, <2>5, <2>6, <2>7 DEF CollectionInv
  <1>11. ASSUME AddStudioScene \/ \E key \in Keys : DuplicateStudioScene(key)
         PROVE  CollectionInv'
    BY <1>10, <1>11, Appends
  <1>12. ASSUME NEW key \in Keys, DeleteStudioScene(key) PROVE CollectionInv'
    <2>1. /\ FramedBook(scenes, made)' /\ FramedBook(stored, made)'
          /\ Book(wanted, made)'
          /\ scenes' # <<>> /\ selected' \in KeysOf(scenes)'
          /\ Stacked(editor, made.layer)' /\ Framed(editor)'
          /\ preview' \in Camera \cup {None} /\ active' = active
      BY <1>12, SceneDeleted
    <2>2. /\ UNCHANGED <<session, load, dirty, output, upload, job, made>> /\ Press
          /\ overlaps' \subseteq Overlap
      BY <1>0, <1>12 DEF DeleteStudioScene, PageTypes, Note, If, Overlap
    <2>3. PageTypes' /\ JobTypes' /\ Counted'
      BY <1>0, <2>1, <2>2, CountUnchanged DEF PageTypes, JobTypes, session
    <2>4. BookTypes' /\ EditorTypes'
      BY <1>0, <2>1, <2>2 DEF BookTypes, EditorTypes, Keys, output
    <2>5. QED
      BY <2>3, <2>4 DEF CollectionInv
  <1>13. CASE PerformCut \/ StartBroadcast
    <2>1. PageTypes' /\ BookTypes' /\ EditorTypes' /\ Counted'
      BY <1>0, <1>13, BookUnchanged, EditorUnchanged, CountUnchanged
         DEF PerformCut, StartBroadcast, PageTypes, BookTypes, session, camera, book,
             output
    <2>2. selected \in 1..made.scene
      BY <1>0 DEF BookTypes, FramedBook, Book, Keys, KeysOf
    <2>3. editor.layers \in SUBSET Layer
      BY <1>0 DEF EditorTypes, Stacked, Content
    <2>4. JobTypes'
      <3>1. \E kind \in {"cut", "start"}, id \in Camera \cup {None} :
                job' = [step |-> "switching", kind |-> kind, key |-> selected,
                        layers |-> editor.layers, camera |-> id]
        BY <1>0, <1>13 DEF PerformCut, StartBroadcast, PageTypes
      <3>2. made' = made
        BY <1>13 DEF PerformCut, StartBroadcast
      <3>3. QED
        BY <2>2, <2>3, <3>1, <3>2 DEF JobTypes
    <2>5. QED
      BY <2>1, <2>4 DEF CollectionInv
  <1>14. CASE ShowProgram
    <2>1. /\ job # NoJob
          /\ job \in [step: {"switching", "publishing"}, kind: {"cut", "start"},
                 key: 1..made.scene, layers: SUBSET Layer, camera: Camera \cup {None}]
      BY <1>0, <1>14 DEF ShowProgram, JobTypes, NoJob
    <2>2. PageTypes' /\ EditorTypes' /\ Counted'
      BY <1>0, <1>14, <2>1, EditorUnchanged, CountUnchanged
         DEF ShowProgram, PageTypes, session, book
    <2>3. BookTypes'
      BY <1>0, <1>14, <2>1, BookUnchanged DEF ShowProgram, book
    <2>4. JobTypes'
      BY <1>14, <2>1 DEF ShowProgram, JobTypes
    <2>5. QED
      BY <2>2, <2>3, <2>4 DEF CollectionInv
  <1>15. CASE ProgramShown
    <2>1. PageTypes' /\ EditorTypes' /\ Counted' /\ JobTypes'
      BY <1>0, <1>15, EditorUnchanged, CountUnchanged
         DEF ProgramShown, PageTypes, JobTypes, camera, book
    <2>2. BookTypes'
      BY <1>0, <1>15, BookUnchanged DEF ProgramShown, book, output, BookTypes
    <2>3. QED
      BY <2>1, <2>2 DEF CollectionInv
  <1>16. QED
    BY <1>1, <1>2, <1>3, <1>4, <1>5, <1>6, <1>7, <1>8, <1>9, <1>10, <1>11, <1>12,
       <1>13,
       <1>14, <1>15, <1>17, Edits DEF Next

\* An overlap that was met stays noted.
LEMMA OverlapsGrow ==
    ASSUME CollectionInv, Next
    PROVE  \A names : Unless(names)' => Unless(names)
  <1>1. overlaps \subseteq overlaps'
    <2>1. ASSUME EditStep PROVE overlaps \subseteq overlaps'
      BY <2>1 DEF EditStep, Note
    <2>2. ASSUME NEW content, NEW asked, AppendScene(content, asked)
          PROVE  overlaps \subseteq overlaps'
      BY <2>2 DEF AppendScene, Note
    <2>3. ASSUME NEW key \in Keys, \/ SelectStudioScene(key) \/ DeleteStudioScene(key)
                                   \/ DuplicateStudioScene(key)
          PROVE  overlaps \subseteq overlaps'
      BY <2>2, <2>3 DEF SelectStudioScene, DeleteStudioScene, DuplicateStudioScene,
         Note
    <2>4. ASSUME NEW present \in SUBSET Camera,
                 EnterStudio(present) \/ CamerasChange(present)
          PROVE  overlaps \subseteq overlaps'
      BY <2>4 DEF EnterStudio, CamerasChange, Note
    <2>9. ASSUME NEW id \in Camera, DisconnectSource(id) PROVE overlaps \subseteq overlaps'
      BY <2>9 DEF DisconnectSource, Note
    <2>5. ASSUME NEW base \in Base, LoadScenes(base)
          PROVE overlaps \subseteq overlaps'
      BY <2>5 DEF LoadScenes
    <2>6. CASE \/ LoadFails \/ Reload \/ LeaveStudio
               \/ PickImage \/ AddImageLayer \/ UploadFails
      BY <2>6 DEF LoadFails, Reload, LeaveStudio, PickImage, AddImageLayer,
         UploadFails, Note
    <2>7. CASE \/ PerformCut \/ StartBroadcast \/ ShowProgram \/ ProgramShown \/ JobFails
               \/ AddStudioScene
      BY <2>2, <2>7
         DEF PerformCut, StartBroadcast, ShowProgram, ProgramShown, JobFails,
             AddStudioScene
    <2>8. QED
      BY <2>1, <2>3, <2>4, <2>5, <2>6, <2>7, <2>9, Edits DEF Next
  <1>2. QED
    BY <1>1 DEF Unless

\* Every step keeps what the page does before its collection is loaded: nothing.
LEMMA LoadedStep ==
    ASSUME CollectionInv, LoadedInv, Next
    PROVE  LoadedInv'
  <1>1. SUFFICES ASSUME Unless({"joinedUnloaded"})' PROVE Loaded'
    BY DEF LoadedInv
  <1>2. Unless({"joinedUnloaded"}) /\ Loaded
    BY <1>1, OverlapsGrow DEF LoadedInv
  <1>3. ASSUME NEW base \in Base, LoadScenes(base) PROVE Loaded'
    BY <1>3 DEF LoadScenes, Loaded
  <1>4. CASE LoadFails
    <2>1. [Empty EXCEPT !.source = None, !.layers = {}] = Empty
      BY EmptyCleared
    <2>2. /\ load # "done" /\ UNCHANGED <<joined, upload, job, scenes>>
          /\ editor' = [editor EXCEPT !.source = None, !.layers = {}] /\ program' = {}
      BY <1>4 DEF LoadFails, session
    <2>3. QED
      BY <1>2, <2>1, <2>2 DEF Loaded
  <1>5. CASE Reload
    BY <1>5 DEF Reload, Loaded
  <1>6. ASSUME NEW present \in SUBSET Camera, EnterStudio(present) PROVE Loaded'
    <2>1. load = "done"
      BY <1>1, <1>6 DEF EnterStudio, Note, If, Unless
    <2>2. QED
      BY <1>2, <1>6, <2>1 DEF EnterStudio, Loaded
  <1>7. CASE joined /\ load' = load
    BY <1>2, <1>7 DEF Loaded
  <1>8. CASE AddImageLayer \/ UploadFails
    BY <1>2, <1>8 DEF AddImageLayer, UploadFails, Loaded
  <1>9. CASE job # NoJob /\ load' = load
    BY <1>2, <1>9 DEF Loaded
  <1>10. ASSUME NEW key \in Keys, \/ SelectStudioScene(key) \/ DuplicateStudioScene(key)
                                  \/ DeleteStudioScene(key)
         PROVE  joined /\ load' = load
    BY <1>10 DEF SelectStudioScene, DuplicateStudioScene, DeleteStudioScene,
       AppendScene
  <1>11. ASSUME NEW present \in SUBSET Camera, CamerasChange(present)
         PROVE  joined /\ load' = load
    BY <1>11 DEF CamerasChange
  <1>15. ASSUME NEW id \in Camera, DisconnectSource(id) PROVE joined /\ load' = load
    BY <1>15 DEF DisconnectSource
  <1>12. ASSUME \/ LeaveStudio \/ EditStep \/ PickImage \/ AddStudioScene
                \/ PerformCut \/ StartBroadcast
         PROVE  joined /\ load' = load
    BY <1>12 DEF LeaveStudio, EditStep, PickImage, AddStudioScene, AppendScene,
       PerformCut,
                 CutEnabled, StartBroadcast
  <1>13. ASSUME ShowProgram \/ ProgramShown \/ JobFails
         PROVE job # NoJob /\ load' = load
    <2>1. CASE ShowProgram
      BY <2>1 DEF ShowProgram, NoJob
    <2>2. CASE ProgramShown
      BY <2>2 DEF ProgramShown, NoJob
    <2>3. CASE JobFails
      BY <2>3 DEF JobFails
    <2>4. QED
      BY <1>13, <2>1, <2>2, <2>3
  <1>14. QED
    BY <1>3, <1>4, <1>5, <1>6, <1>7, <1>8, <1>9, <1>10, <1>11, <1>12, <1>13, <1>15,
       Edits DEF Next

\* A key of the collection is not one that the next scene gets, and no scene has it twice.
LEMMA KeysKnown ==
    ASSUME CollectionInv
    PROVE  /\ \A i \in DOMAIN scenes : scenes[i].key # made.scene + 1
           /\ \A i, j \in DOMAIN scenes : scenes[i].key = scenes[j].key => i = j
           /\ \E i \in DOMAIN scenes : scenes[i].key = selected
           /\ scenes \in Seq(Scene) /\ wanted \in Seq(Scene)
           /\ job # NoJob => job.key # made.scene + 1
  <1>1. made.scene \in Nat
    BY DEF CollectionInv, Counted
  <1>2. QED
    BY <1>1 DEF CollectionInv, BookTypes, FramedBook, Book, Keys, KeysOf, JobTypes

\* A scene that is written anew has the editor's content, and the others what they had.
LEMMA PutAt ==
    ASSUME CollectionInv, NEW key, NEW content
    PROVE  /\ DOMAIN Put(scenes, key, content) = DOMAIN scenes
           /\ \A i \in DOMAIN scenes :
                /\ Put(scenes, key, content)[i].key = scenes[i].key
                /\ scenes[i].key = key => Put(scenes, key, content)[i].content = content
                /\ scenes[i].key # key => Put(scenes, key, content)[i] = scenes[i]
  <1>1. \A i \in DOMAIN scenes : scenes[i] \in Scene
    BY KeysKnown
  <1>2. QED
    BY <1>1 DEF Put, Scene

\* Every step keeps the editor's content that of the scene that is selected, unless
\* another scene is opened during an upload.
LEMMA OpenedStep ==
    ASSUME CollectionInv, LoadedInv, OpenedInv, Next
    PROVE  OpenedInv'
  <1> DEFINE names == {"selectInUpload", "joinedUnloaded"}
  <1>1. SUFFICES ASSUME Unless(names)' PROVE Opened'
    BY DEF OpenedInv
  <1>2. Opened /\ Loaded
    <2>1. Unless(names) /\ Unless({"joinedUnloaded"})
      BY <1>1, OverlapsGrow DEF Unless
    <2>2. QED
      BY <2>1 DEF OpenedInv, LoadedInv
  <1>3. ASSUME NEW base \in Base, LoadScenes(base) PROVE Opened'
    <2>1. upload' = NoUpload
      BY <1>2, <1>3 DEF LoadScenes, Loaded
    <2>2. QED
      BY <1>3, <2>1, ScenesLoaded DEF Opened
  <1>4. CASE LoadFails
    <2>1. upload' = NoUpload /\ editor' = Empty /\ scenes' = First
      <3>1. [Empty EXCEPT !.source = None, !.layers = {}] = Empty
        BY EmptyCleared
      <3>2. /\ load # "done" /\ UNCHANGED <<upload, scenes>>
            /\ editor' = [editor EXCEPT !.source = None, !.layers = {}]
        BY <1>4 DEF LoadFails
      <3>3. QED
        BY <1>2, <3>1, <3>2 DEF Loaded
    <2>2. QED
      BY <2>1, PageReloaded DEF Opened, CollectionInv, Counted
  <1>5. CASE Reload
    <2>1. upload' = NoUpload /\ editor' = Empty /\ scenes' = First
      BY <1>5 DEF Reload
    <2>2. QED
      BY <2>1, PageReloaded DEF Opened, CollectionInv, Counted
  <1>6. CASE UNCHANGED <<scenes, selected,
                         editor>> /\ (UNCHANGED upload \/ upload' = NoUpload)
    BY <1>2, <1>6 DEF Opened
  <1>7. CASE EditStep
    <2>1. /\ scenes' = Put(scenes, selected, editor') /\ selected' = selected
          /\ upload' = upload
      BY <1>7 DEF EditStep, Rewrites
    <2>2. QED
      BY <1>2, <2>1, PutAt DEF Opened
  <1>8. CASE PickImage
    BY <1>2, <1>8 DEF PickImage, Opened, book
  <1>9. CASE AddImageLayer
    <2>1. /\ scenes' = Put(scenes, upload.key, editor') /\ selected' = selected
          /\ upload' = NoUpload /\ upload # NoUpload
      BY <1>9 DEF AddImageLayer, Commit
    <2>2. upload.key = selected
      BY <1>2, <2>1 DEF Opened
    <2>3. QED
      BY <2>1, <2>2, PutAt DEF Opened
  <1>10. ASSUME NEW key \in Keys, SelectStudioScene(key) PROVE Opened'
    <2>1. upload' = NoUpload
      BY <1>1, <1>10 DEF SelectStudioScene, Note, If, Unless
    <2>2. /\ ItemOf(scenes, key).key = key
          /\ \A i \in DOMAIN scenes :
                scenes[i].key = key => scenes[i] = ItemOf(scenes, key)
      BY SceneOf
    <2>3. scenes' = scenes /\ selected' = key /\ editor' = ItemOf(scenes, key).content
      BY <1>10, <2>2 DEF SelectStudioScene, Open
    <2>4. QED
      BY <2>1, <2>2, <2>3 DEF Opened
  <1>11. ASSUME NEW content, NEW asked, AppendScene(content, asked),
                Stacked(content, made.layer), Framed(content), Stacked(asked, made.layer)
         PROVE  Opened'
    <2>1. upload' = NoUpload
      BY <1>1, <1>11 DEF AppendScene, Note, If, Unless
    <2>2. /\ selected' = made.scene + 1 /\ editor' = content
          /\ \A i \in DOMAIN scenes' :
               \/ i \in DOMAIN scenes /\ scenes'[i] = scenes[i]
               \/ scenes'[i] = [key |-> selected', content |-> content]
      BY <1>11, SceneAppended
    <2>3. QED
      BY <2>1, <2>2, KeysKnown DEF Opened
  <1>12. ASSUME NEW key \in Keys, DeleteStudioScene(key) PROVE Opened'
    <2>1. /\ selected = key => \E i \in DOMAIN scenes' :
                    scenes'[i].key = selected' /\ scenes'[i].content = editor'
          /\ selected # key => UNCHANGED <<selected, editor, preview, active>>
          /\ \A i \in DOMAIN scenes' : \E j \in DOMAIN scenes :
                    scenes'[i] = scenes[j] /\ scenes[j].key # key
          /\ FramedBook(scenes, made)'
      BY <1>12, SceneDeleted
    <2>2. upload' = upload /\ (selected = key => upload = NoUpload)
      BY <1>1, <1>12 DEF DeleteStudioScene, Note, If, Unless
    <2>3. CASE selected = key
      BY <2>1, <2>2, <2>3 DEF Opened, FramedBook, Book
    <2>4. CASE selected # key
      BY <1>2, <2>1, <2>2, <2>4 DEF Opened
    <2>5. QED
      BY <2>3, <2>4
  <1>13. ASSUME NEW present \in SUBSET Camera,
                EnterStudio(present) \/ CamerasChange(present)
         PROVE  Opened'
    BY <1>2, <1>13 DEF EnterStudio, CamerasChange, book, Opened
  <1>16. ASSUME NEW id \in Camera, DisconnectSource(id) PROVE Opened'
    BY <1>2, <1>16 DEF DisconnectSource, book, Opened
  <1>14. ASSUME \/ LeaveStudio \/ UploadFails \/ PerformCut \/ StartBroadcast
                \/ ShowProgram \/ ProgramShown \/ JobFails
         PROVE  Opened'
    BY <1>2, <1>14 DEF LeaveStudio, UploadFails, PerformCut, StartBroadcast,
       ShowProgram,
                       ProgramShown, JobFails, book, Opened
  <1>15. QED
    BY <1>3, <1>4, <1>5, <1>7, <1>8, <1>9, <1>10, <1>11, <1>12, <1>13, <1>14,
       <1>16, Edits, Appends DEF Next

\* The step that writes the editor's new content in the collection asks for the same.
LEMMA AskedIsWritten ==
    ASSUME CollectionInv, NEW key, NEW old, Rewrites(key, old), scenes = wanted,
           \A i \in DOMAIN scenes : scenes[i].key = key => scenes[i].content = old
    PROVE  scenes' = wanted'
  <1>1. /\ wanted' \in [DOMAIN scenes -> Scene]
        /\ \A i \in DOMAIN scenes :
            /\ wanted'[i].key = scenes[i].key
            /\ scenes[i].key = key => wanted'[i].content = editor'
            /\ scenes[i].key # key => wanted'[i] = scenes[i]
    BY DEF Rewrites, Written
  <1>2. scenes' = Put(scenes, key, editor') /\ editor' \in Content
    BY DEF Rewrites, Stacked
  <1>3. Put(scenes, key, editor') \in [DOMAIN scenes -> Scene]
    <2>1. \A i \in DOMAIN scenes : scenes[i] \in Scene
      BY KeysKnown
    <2>2. \A i \in DOMAIN scenes : [scenes[i] EXCEPT !.content = editor'] \in Scene
      BY <1>2, <2>1 DEF Scene
    <2>3. QED
      BY <1>2, <2>1, <2>2 DEF Put
  <1>4. ASSUME NEW i \in DOMAIN scenes PROVE scenes'[i] = wanted'[i]
    <2>1. /\ scenes'[i] \in Scene /\ wanted'[i] \in Scene
          /\ scenes'[i].key = scenes[i].key
          /\ scenes[i].key = key => scenes'[i].content = editor'
          /\ scenes[i].key # key => scenes'[i] = scenes[i]
      BY <1>1, <1>2, <1>3, PutAt
    <2>2. CASE scenes[i].key = key
      <3>1. scenes'[i].key = wanted'[i].key /\ scenes'[i].content = wanted'[i].content
        BY <1>1, <2>1, <2>2
      <3>2. QED
        BY <2>1, <3>1 DEF Scene
    <2>3. CASE scenes[i].key # key
      BY <1>1, <2>1, <2>3
    <2>4. QED
      BY <2>2, <2>3
  <1>5. QED
    BY <1>1, <1>2, <1>3, <1>4

\* Every step keeps the collection, and its copy in the browser, what was asked for,
\* unless an edit or another scene comes during an upload.
LEMMA KeptStep ==
    ASSUME CollectionInv, LoadedInv, OpenedInv, KeptInv, Next
    PROVE  KeptInv'
  <1> DEFINE names == {"editInUpload", "selectInUpload", "joinedUnloaded"}
  <1>1. SUFFICES ASSUME Unless(names)' PROVE Kept'
    BY DEF KeptInv
  <1>2. Kept /\ Opened /\ Loaded
    <2>1. /\ Unless(names) /\ Unless({"selectInUpload", "joinedUnloaded"})
          /\ Unless({"joinedUnloaded"})
      BY <1>1, OverlapsGrow DEF Unless
    <2>2. QED
      BY <2>1 DEF KeptInv, OpenedInv, LoadedInv
  <1>3. ASSUME NEW base \in Base, LoadScenes(base) PROVE Kept'
    <2>1. /\ scenes' = IF stored = <<>>
                       THEN <<[key |-> 1, content |-> base]>> ELSE stored
          /\ wanted' = IF wanted = <<>> THEN scenes' ELSE wanted
          /\ stored' = scenes' /\ stored = wanted
      BY <1>2, <1>3 DEF LoadScenes, Kept
    <2>2. scenes' = wanted'
      BY <2>1
    <2>3. upload' = NoUpload
      BY <1>2, <1>3 DEF LoadScenes, Loaded
    <2>4. QED
      BY <2>1, <2>2, <2>3 DEF Kept
  <1>4. CASE LoadFails
    BY <1>2, <1>4 DEF LoadFails, Kept, Loaded
  <1>5. CASE Reload
    BY <1>2, <1>5 DEF Reload, Kept
  <1>6. CASE EditStep
    <2>1. upload' = NoUpload
      BY <1>1, <1>6 DEF EditStep, Note, If, Unless
    <2>2. load = "done" /\ load' = load /\ scenes = wanted
      BY <1>2, <1>6 DEF EditStep, Loaded, Kept
    <2>3. scenes' = wanted'
      BY <1>2, <1>6, <2>2, AskedIsWritten DEF EditStep, Opened
    <2>4. stored' = scenes'
      BY <1>6, <2>2 DEF EditStep, Rewrites, Persist
    <2>5. QED
      BY <2>1, <2>3, <2>4 DEF Kept
  <1>7. CASE AddImageLayer
    <2>1. /\ upload # NoUpload /\ upload' = NoUpload /\ load' = load /\ Persist
      BY <1>7 DEF AddImageLayer
    <2>2. /\ load = "done" /\ scenes = wanted /\ upload.key = selected
          /\ upload.content = editor
      BY <1>2, <2>1 DEF Loaded, Kept, Opened
    <2>3. Rewrites(selected, editor)
      BY <1>7, <2>2, ImageAdded
    <2>4. scenes' = wanted'
      BY <1>2, <2>2, <2>3, AskedIsWritten DEF Opened
    <2>5. QED
      BY <2>1, <2>2, <2>4 DEF Kept, Persist
  <1>8. CASE PickImage
    BY <1>2, <1>8 DEF PickImage, Kept, book
  <1>9. ASSUME NEW key \in Keys, SelectStudioScene(key) PROVE Kept'
    <2>1. upload' = NoUpload
      BY <1>1, <1>9 DEF SelectStudioScene, Note, If, Unless
    <2>2. QED
      BY <1>2, <1>9, <2>1 DEF SelectStudioScene, Kept
  <1>10. ASSUME AddStudioScene \/ \E key \in Keys : DuplicateStudioScene(key)
         PROVE Kept'
    <2>1. PICK content, asked :
                /\ AppendScene(content, asked) /\ Stacked(content, made.layer)
                /\ Framed(content) /\ Stacked(asked, made.layer)
                /\ scenes = wanted => asked = content
      BY <1>10, Appends
    <2>2. upload' = NoUpload /\ load' = load /\ joined
      BY <1>1, <2>1 DEF AppendScene, Note, If, Unless
    <2>3. load = "done" /\ scenes = wanted
      BY <1>2, <2>2 DEF Loaded, Kept
    <2>4. scenes' = wanted' /\ stored' = scenes'
      BY <2>1, <2>3, SceneAppended
    <2>5. QED
      BY <2>2, <2>4 DEF Kept
  <1>11. ASSUME NEW key \in Keys, DeleteStudioScene(key) PROVE Kept'
    <2>1. /\ scenes' = Without(scenes, key) /\ wanted' = Without(wanted, key)
          /\ Persist /\ joined /\ load' = load /\ upload' = upload
          /\ selected # key => editor' = editor
      BY <1>11 DEF DeleteStudioScene
    <2>2. selected = key => upload = NoUpload
      BY <1>1, <1>11 DEF DeleteStudioScene, Note, If, Unless
    <2>3. load = "done" /\ scenes = wanted
      BY <1>2, <2>1 DEF Loaded, Kept
    <2>4. QED
      BY <1>2, <2>1, <2>2, <2>3 DEF Kept, Persist
  <1>12. ASSUME NEW present \in SUBSET Camera,
                EnterStudio(present) \/ CamerasChange(present)
         PROVE  Kept'
    BY <1>2, <1>12 DEF EnterStudio, CamerasChange, book, Kept
  <1>15. ASSUME NEW id \in Camera, DisconnectSource(id) PROVE Kept'
    BY <1>2, <1>15 DEF DisconnectSource, book, Kept
  <1>13. ASSUME \/ LeaveStudio \/ UploadFails \/ PerformCut \/ StartBroadcast
                \/ ShowProgram \/ ProgramShown \/ JobFails
         PROVE  Kept'
    BY <1>2, <1>13 DEF LeaveStudio, UploadFails, PerformCut, StartBroadcast,
       ShowProgram,
                       ProgramShown, JobFails, book, Kept
  <1>14. QED
    BY <1>3, <1>4, <1>5, <1>6, <1>7, <1>8, <1>9, <1>10, <1>11, <1>12, <1>13, <1>15,
       Edits DEF Next

\* Every step keeps the Preview the camera of the editor.
LEMMA PreviewStep ==
    ASSUME CollectionInv, LoadedInv, OpenedInv, KeptInv, PreviewIsSource, Next
    PROVE  PreviewIsSource'
  <1> DEFINE names == {"selectInUpload", "editInUpload", "joinedUnloaded",
                       "previewDisconnected"}
  <1>1. SUFFICES ASSUME joined', Unless(names)'
                 PROVE (preview = Shown(editor.source))'
    BY DEF PreviewIsSource
  <1>2. /\ joined => preview = Shown(editor.source)
        /\ Kept /\ Loaded
    <2>1. /\ Unless(names)
          /\ Unless({"editInUpload", "selectInUpload", "joinedUnloaded"})
          /\ Unless({"joinedUnloaded"})
      BY <1>1, OverlapsGrow DEF Unless
    <2>2. QED
      BY <2>1 DEF KeptInv, LoadedInv, PreviewIsSource
  <1>3. ASSUME NEW base \in Base, LoadScenes(base) PROVE FALSE
    BY <1>1, <1>2, <1>3 DEF LoadScenes, Loaded, session
  <1>4. CASE LoadFails \/ Reload \/ LeaveStudio
    BY <1>1, <1>2, <1>4 DEF LoadFails, Reload, LeaveStudio, Loaded, session
  <1>5. ASSUME NEW present \in SUBSET Camera,
               EnterStudio(present) \/ CamerasChange(present)
        PROVE  (preview = Shown(editor.source))'
    BY <1>5 DEF EnterStudio, CamerasChange, UpdateCameras, Shown, book
  <1>13. ASSUME NEW id \in Camera, DisconnectSource(id)
         PROVE  (preview = Shown(editor.source))'
    <2>1. preview # id
      BY <1>1, <1>13 DEF DisconnectSource, Note, If, Unless
    <2>2. joined /\ UNCHANGED <<connected, preview, editor>>
      BY <1>13, <2>1 DEF DisconnectSource, session, book
    <2>3. QED
      BY <1>2, <2>2 DEF Shown
  <1>6. CASE EditStep
    BY <1>2, <1>6 DEF EditStep, Shown, session
  <1>7. CASE AddImageLayer
    <2>1. upload # NoUpload /\ UNCHANGED <<joined, connected, preview>>
      BY <1>7 DEF AddImageLayer, session, camera
    <2>2. editor'.source = editor.source
      BY <1>2, <1>7, <2>1, ImageAdded DEF Kept
    <2>3. QED
      BY <1>1, <1>2, <2>1, <2>2 DEF Shown
  <1>8. ASSUME NEW key \in Keys, SelectStudioScene(key)
        PROVE  (preview = Shown(editor.source))'
    BY <1>8 DEF SelectStudioScene, Open, Shown, session
  <1>9. ASSUME NEW content, NEW asked, AppendScene(content, asked)
        PROVE  (preview = Shown(editor.source))'
    BY <1>9 DEF AppendScene, Open, Shown, session
  <1>10. ASSUME NEW key \in Keys, DeleteStudioScene(key)
         PROVE  (preview = Shown(editor.source))'
    BY <1>2, <1>10 DEF DeleteStudioScene, Open, Shown, session, camera
  <1>11. ASSUME \/ PickImage \/ UploadFails \/ PerformCut \/ StartBroadcast
                \/ ShowProgram \/ ProgramShown \/ JobFails
         PROVE  (preview = Shown(editor.source))'
    <2>1. UNCHANGED <<joined, connected, preview, editor>>
      BY <1>11 DEF PickImage, UploadFails, PerformCut, StartBroadcast, ShowProgram,
                   ProgramShown, JobFails, session, camera, book
    <2>2. QED
      BY <1>1, <1>2, <2>1 DEF Shown
  <1>12. QED
    BY <1>3, <1>4, <1>5, <1>6, <1>7, <1>8, <1>9, <1>10, <1>11, <1>13,
       Edits DEF Next, AddStudioScene, DuplicateStudioScene

\* Every step keeps a scene without changes what the program shows of it, and what a Cut
\* or a Start took its scene's, unless it changes meanwhile or a change is forgotten.
LEMMA CleanStep ==
    ASSUME CollectionInv, LoadedInv, OpenedInv, CleanInv, Next
    PROVE  CleanInv'
  <1> DEFINE names == {"dirtyForgotten", "editInCut", "selectInUpload", "joinedUnloaded"}
             Shows(key, layers) ==
                \A i \in DOMAIN scenes :
                    scenes[i].key = key => scenes[i].content.layers = layers
  <1>1. SUFFICES ASSUME Unless(names)' PROVE Clean'
    BY DEF CleanInv
  <1>2. Clean /\ Opened /\ Loaded
    <2>1. /\ Unless(names) /\ Unless({"selectInUpload", "joinedUnloaded"})
          /\ Unless({"joinedUnloaded"})
      BY <1>1, OverlapsGrow DEF Unless
    <2>2. QED
      BY <2>1 DEF CleanInv, OpenedInv, LoadedInv
  <1>3. ASSUME NEW base \in Base, LoadScenes(base) PROVE Clean'
    <2>1. job' = NoJob
      BY <1>2, <1>3 DEF LoadScenes, Loaded
    <2>2. QED
      BY <2>1, <1>3, ScenesLoaded DEF Clean
  <1>4. CASE LoadFails \/ Reload
    <2>1. job' = NoJob /\ scenes' = First /\ program' = {}
      BY <1>2, <1>4 DEF LoadFails, Reload, Loaded
    <2>2. DOMAIN First = {1} /\ First[1].content = Empty /\ Empty.layers = {}
      BY PageReloaded DEF CollectionInv, Counted, Empty
    <2>3. QED
      BY <2>1, <2>2 DEF Clean
  <1>5. CASE EditStep
    <2>1. job' = NoJob /\ dirty' = TRUE
      BY <1>1, <1>5 DEF EditStep, Note, If, Unless
    <2>2. QED
      BY <2>1 DEF Clean
  <1>6. CASE AddImageLayer
    <2>1. job' = NoJob /\ dirty' = TRUE
      BY <1>1, <1>6 DEF AddImageLayer, Note, If, Unless
    <2>2. QED
      BY <2>1 DEF Clean
  <1>7. ASSUME NEW key \in Keys, SelectStudioScene(key) PROVE Clean'
    <2>1. ~dirty /\ UNCHANGED <<scenes, program, programKey, job>>
      <3>1. dirty \in BOOLEAN
        BY DEF CollectionInv, PageTypes
      <3>2. QED
        BY <1>1, <1>7, <3>1 DEF SelectStudioScene, Note, If, Unless, output
    <2>2. QED
      BY <1>2, <2>1 DEF Clean
  <1>8. ASSUME NEW content, NEW asked, AppendScene(content, asked),
               Stacked(content, made.layer), Framed(content), Stacked(asked, made.layer)
        PROVE  Clean'
    <2>1. dirty' = TRUE /\ UNCHANGED <<program, programKey, job>>
      BY <1>8 DEF AppendScene, output
    <2>2. \A i \in DOMAIN scenes' : \/ i \in DOMAIN scenes /\ scenes'[i] = scenes[i]
                                    \/ scenes'[i].key = made.scene + 1
      BY <1>8, SceneAppended
    <2>3. QED
      BY <1>2, <2>1, <2>2, KeysKnown DEF Clean
  <1>9. ASSUME NEW key \in Keys, DeleteStudioScene(key) PROVE Clean'
    <2>1. UNCHANGED <<dirty, program, programKey, job>>
      BY <1>9 DEF DeleteStudioScene, output
    <2>2. \A i \in DOMAIN scenes' : \E j \in DOMAIN scenes : scenes'[i] = scenes[j]
      BY <1>9, SceneDeleted
    <2>3. QED
      BY <1>2, <2>1, <2>2 DEF Clean
  <1>10. CASE PerformCut \/ StartBroadcast
    <2>1. /\ UNCHANGED <<scenes, dirty, program, programKey>>
          /\ job'.step = "switching" /\ job'.key = selected
          /\ job'.layers = editor.layers
      BY <1>10 DEF PerformCut, StartBroadcast, book, output
    <2>2. QED
      BY <1>2, <2>1 DEF Clean, Opened
  <1>11. CASE ShowProgram
    <2>1. /\ job # NoJob
          /\ job \in [step: {"switching", "publishing"}, kind: {"cut", "start"},
                 key: 1..made.scene, layers: SUBSET Layer, camera: Camera \cup {None}]
      BY <1>11 DEF ShowProgram, CollectionInv, JobTypes, NoJob
    <2>2. /\ scenes' = scenes /\ program' = job.layers /\ programKey' = job.key
          /\ job' = [job EXCEPT !.step = "publishing"]
      BY <1>11 DEF ShowProgram, book
    <2>3. Shows(job.key, job.layers)
      BY <1>2, <2>1 DEF Clean
    <2>4. job'.key = job.key /\ job'.layers = job.layers
      BY <2>1, <2>2
    <2>5. QED
      BY <2>2, <2>3, <2>4 DEF Clean
  <1>12. CASE ProgramShown
    <2>1. /\ UNCHANGED <<scenes, program, programKey>> /\ job' = NoJob
          /\ job.step = "publishing" /\ job # NoJob
          /\ dirty' = FALSE \/ dirty' = dirty
      BY <1>12 DEF ProgramShown, NoJob, book, output
    <2>2. Shows(programKey, program)
      BY <1>2, <2>1 DEF Clean
    <2>3. QED
      BY <2>1, <2>2 DEF Clean
  <1>13. ASSUME NEW present \in SUBSET Camera,
                EnterStudio(present) \/ CamerasChange(present)
         PROVE  Clean'
    BY <1>2, <1>13 DEF EnterStudio, CamerasChange, book, output, Clean
  <1>17. ASSUME NEW id \in Camera, DisconnectSource(id) PROVE Clean'
    BY <1>2, <1>17 DEF DisconnectSource, book, output, Clean
  <1>14. CASE LeaveStudio \/ PickImage \/ UploadFails
    BY <1>2, <1>14 DEF LeaveStudio, PickImage, UploadFails, book, output, Clean
  <1>15. CASE JobFails
    BY <1>2, <1>15 DEF JobFails, book, output, Clean
  <1>16. QED
    BY <1>3, <1>4, <1>5, <1>6, <1>7, <1>8, <1>9, <1>10, <1>11, <1>12, <1>13, <1>14,
       <1>15, <1>17, Edits, Appends DEF Next

\* A page that was just opened.
LEMMA IInvInit == Init => IInv
  <1> SUFFICES ASSUME Init PROVE IInv
    OBVIOUS
  <1>1. Counted /\ JobTypes /\ PageTypes
    <2>1. presses = 0 /\ made = [scene |-> 1, layer |-> 0] /\ upload = NoUpload
      BY DEF Init
    <2>2. Counted
      BY <2>1, SceneAssumption DEF Counted
    <2>3. JobTypes /\ PageTypes
      BY DEF Init, JobTypes, PageTypes
    <2>4. QED
      BY <2>2, <2>3
  <1>2. /\ FramedBook(scenes, made) /\ scenes # <<>> /\ KeysOf(scenes) = {1}
        /\ Stacked(editor, made.layer) /\ Framed(editor)
        /\ DOMAIN scenes = {1} /\ scenes[1].content = Empty
    BY <1>1, PageReloaded DEF Init, Counted
  <1>3. FramedBook(<<>>, made) /\ Book(<<>>, made)
    BY DEF FramedBook, Book
  <1>4. CollectionInv
    BY <1>1, <1>2, <1>3 DEF Init, CollectionInv, BookTypes, EditorTypes, Keys
  <1>5. Loaded /\ Opened /\ Kept /\ PreviewIsSource
    BY <1>2 DEF Init, Loaded, Opened, Kept, PreviewIsSource
  <1>6. Clean
    BY <1>2 DEF Init, Clean, Empty
  <1>7. QED
    BY <1>4, <1>5, <1>6 DEF IInv, LoadedInv, OpenedInv, KeptInv, CleanInv

\* The invariant is about the variables alone: a stutter keeps it.
LEMMA IInvStutters == ASSUME IInv, UNCHANGED vars PROVE IInv'
  <1>1. CollectionInv' /\ PreviewIsSource'
    BY DEF IInv, CollectionInv, PageTypes, BookTypes, EditorTypes, JobTypes,
       Counted,
           PreviewIsSource, Unless, Shown, Keys, vars, session, book, camera, output
  <1>2. LoadedInv' /\ OpenedInv' /\ KeptInv' /\ CleanInv'
    BY DEF IInv, LoadedInv, OpenedInv, KeptInv, CleanInv, Loaded, Opened, Kept,
       Clean,
           Unless, vars, session, book, camera, output
  <1>3. QED
    BY <1>1, <1>2 DEF IInv

\* The scenes, the editor, the copy in the browser and the program stay together.
THEOREM CollectionAlways == Spec => []IInv
  <1>1. Init => IInv
    BY IInvInit
  <1>2. IInv /\ [Next]_vars => IInv'
    <2>1. IInv /\ Next => IInv'
      BY CollectionNext, LoadedStep, OpenedStep, KeptStep, PreviewStep, CleanStep
         DEF IInv
    <2>2. QED
      BY <2>1, IInvStutters
  <1>3. QED
    BY <1>1, <1>2, PTL DEF Spec

\* Every variable of the Studio's scene collection has its type, whatever the operator
\* does and whatever overlaps, and no key is in a collection twice.
THEOREM TypeCorrect == Spec => []TypeOK
  <1>1. IInv => TypeOK
    <2>1. SUFFICES ASSUME CollectionInv PROVE TypeOK
      BY DEF IInv
    <2>2. /\ made.scene \in Nat /\ made.scene <= MaxPresses + 1 /\ made.layer \in Nat
          /\ made.layer <= MaxPresses /\ made \in [scene: Nat, layer: Nat]
          /\ MaxPresses \in Nat /\ presses \in 0..MaxPresses
      BY <2>1, SceneAssumption DEF CollectionInv, Counted
    <2>3. made \in [scene: Id, layer: Id] /\ programKey \in Id
      BY <2>1, <2>2 DEF CollectionInv, BookTypes, Id
    <2>4. ASSUME NEW items \in {stored, scenes, wanted}
         
          PROVE  /\ \A i \in DOMAIN items :
                      items[i].key \in Id /\ items[i].content \in Content
                 /\ \A i, j \in DOMAIN items : items[i].key = items[j].key => i = j
      <3>1. Book(items, made)
        BY <2>1 DEF CollectionInv, BookTypes, FramedBook
      <3>2. QED
        BY <2>2, <3>1 DEF Book, Stacked, Id
    <2>5. QED
      BY <2>1, <2>2, <2>3, <2>4
         DEF TypeOK, CollectionInv, PageTypes, BookTypes, EditorTypes, Framed
  <1>2. QED
    BY <1>1, CollectionAlways, PTL

\* Of the collection the layers stay in the frame, apart and in one order, whatever
\* overlaps: the panel's clamps and the new numbers of a reordering see to it.
THEOREM LayersStayStacked == Spec => []LayersStacked
  <1>1. IInv => LayersStacked
    BY DEF IInv, CollectionInv, BookTypes, FramedBook, Book, Stacked, Framed,
       LayersStacked
  <1>2. QED
    BY <1>1, CollectionAlways, PTL

\* What is edited is the scene that the panel marks as selected.
THEOREM EditorFollowsSelection == Spec => []EditorShowsSelected
  <1>1. IInv => EditorShowsSelected
    <2>1. SUFFICES ASSUME CollectionInv, Opened
                   PROVE  editor = ItemOf(scenes, selected).content
      BY DEF IInv, OpenedInv, EditorShowsSelected
    <2>2. PICK i \in DOMAIN scenes : scenes[i].key = selected
      BY <2>1, KeysKnown
    <2>3. scenes[i] = ItemOf(scenes, selected)
      BY <2>1, <2>2, SceneOf DEF CollectionInv, BookTypes
    <2>4. QED
      BY <2>1, <2>2, <2>3 DEF Opened
  <1>2. QED
    BY <1>1, CollectionAlways, PTL

\* No edit of the collection is lost, in the page or over a reload of it, unless it came
\* during an upload.
THEOREM NoEditLost == Spec => []EditsKept
  <1>1. IInv => EditsKept
    BY DEF IInv, KeptInv, Kept, EditsKept
  <1>2. QED
    BY <1>1, CollectionAlways, PTL

\* The Preview's camera is the one of the scene in the editor.
THEOREM PreviewFollowsEditor == Spec => []PreviewIsSource
  <1>1. IInv => PreviewIsSource
    BY DEF IInv
  <1>2. QED
    BY <1>1, CollectionAlways, PTL

\* Whenever the layers of the editor are not the program's, the Cut button is enabled: no
\* change is left that the operator cannot take to the program.
THEOREM CutIsOffered == Spec => []ChangesCanBeCut
  <1>1. IInv => ChangesCanBeCut
    <2>1. SUFFICES ASSUME CollectionInv, Opened, Clean, joined, preview # None,
                          editor.layers # program, ~dirty, selected = programKey
                   PROVE  FALSE
      BY DEF IInv, OpenedInv, CleanInv, Unless, ChangesCanBeCut, CutEnabled
    <2>2. PICK i \in DOMAIN scenes : scenes[i].key = selected
      BY <2>1, KeysKnown
    <2>3. QED
      BY <2>1, <2>2 DEF Opened, Clean
  <1>2. QED
    BY <1>1, CollectionAlways, PTL
=============================================================================
