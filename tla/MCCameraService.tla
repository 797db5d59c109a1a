--------------------------- MODULE MCCameraService ---------------------------
(* TLC instances of CameraService. *)
EXTENDS CameraService, TLC

(* Addresses are interchangeable, and so are the goroutines. *)
Symmetry == Permutations(IPs) \cup Permutations(Readers)
=============================================================================
