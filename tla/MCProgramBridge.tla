-------------------------- MODULE MCProgramBridge --------------------------
(* Instances of ProgramBridge for TLC.                                     *)
EXTENDS ProgramBridge, TLC

CONSTANTS camA, camB, trkA, trkB, trkA2

\* Two cameras with a track each.
OneEach == trkA :> camA @@ trkB :> camB

\* The two cameras are interchangeable, each with its track.
Swap == {camA :> camB @@ camB :> camA @@ trkA :> trkB @@ trkB :> trkA}

\* One camera, one track.
OneEachA == trkA :> camA

\* One camera that reconnects: two tracks of the same owner, and no other.
Reconnecting == trkA :> camA @@ trkA2 :> camA
=============================================================================
