------------------------------ MODULE MCViewer ------------------------------
(***************************************************************************)
(* Five events of the room, the operator and the viewer, in any order with *)
(* the answers and messages in flight.                                     *)
(***************************************************************************)
EXTENDS Viewer
=============================================================================
