------------------------ MODULE MCTransmissionDaemon ------------------------
(* Small instances of TransmissionDaemon. *)
EXTENDS TransmissionDaemon, TLC

CONSTANTS m1, m2, u1, u2, u3

\* Two processes: two requests on the first, one on the second.
TwoHome == u1 :> m1 @@ u2 :> m1 @@ u3 :> m2
=============================================================================
