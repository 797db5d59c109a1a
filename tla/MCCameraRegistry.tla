-------------------------- MODULE MCCameraRegistry --------------------------
(* TLC instances of CameraRegistry. *)
EXTENDS CameraRegistry, TLC

(* Handler goroutines are interchangeable, and so are addresses. *)
Symmetry == Permutations(Requests) \cup Permutations(IPs)
=============================================================================
