--------------------------- MODULE MCConsentControl ---------------------------
(* Instance of ConsentControl for TLC. *)
EXTENDS ConsentControl, TLC

\* The devices run the same code.
DeviceSymmetry == Permutations(Devices)
=============================================================================
