------------------------- MODULE MCSceneCollection -------------------------
(***************************************************************************)
(* Two cameras, a frame of two units and five presses: enough to pick an   *)
(* image, open or edit a scene before it arrives, and to make two layers.  *)
(***************************************************************************)
EXTENDS SceneCollection, TLC

Symmetry == Permutations(Camera)
=============================================================================
