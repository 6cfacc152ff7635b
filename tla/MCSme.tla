------------------------------- MODULE MCSme -------------------------------
(* Two access points of one network; another network has none in range.     *)
EXTENDS Sme, TLC
CONSTANTS a1, a2, S1, S2

MCSsidOf == a1 :> S1 @@ a2 :> S1
============================================================================
