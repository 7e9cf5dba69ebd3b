-------------------------- MODULE MCRtpContinuity --------------------------
(* Instances of RtpContinuity for TLC.                                     *)
EXTENDS RtpContinuity, TLC

CONSTANTS sndA, sndB, trkA, trkB, trkA2

\* Two senders with a track each.
OneEach == trkA :> sndA @@ trkB :> sndB

\* One sender that reconnects.
Reconnecting == trkA :> sndA @@ trkA2 :> sndA
=============================================================================
