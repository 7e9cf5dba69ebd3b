---------------------------- MODULE MCSourcePage ----------------------------
(***************************************************************************)
(* Two starts, which a stop in between lets overlap, under one room code   *)
(* or two, and five presses.                                               *)
(***************************************************************************)
EXTENDS SourcePage
=============================================================================
