-------------------------- MODULE MCLiveObservation --------------------------
(***************************************************************************)
(* An instance of LiveObservation for TLC: the service is first started    *)
(* when the last three hours are complete.                                 *)
(***************************************************************************)
EXTENDS LiveObservation

PastHours == {-3, -2, -1}

===============================================================================
