------------------------------ MODULE MCD1Test ------------------------------
(***************************************************************************)
(* Three starts, so that a stop during an import or during the permission  *)
(* prompt leaves room for one more, and four presses.                      *)
(***************************************************************************)
EXTENDS D1Test
=============================================================================
