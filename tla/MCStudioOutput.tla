--------------------------- MODULE MCStudioOutput ---------------------------
(***************************************************************************)
(* Two joins and six presses: a broadcast, a second one after a Stop or    *)
(* after leaving and joining again, and changes of the mix in between.     *)
(***************************************************************************)
EXTENDS StudioOutput
=============================================================================
