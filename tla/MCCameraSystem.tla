--------------------------- MODULE MCCameraSystem ---------------------------
(* TLC instances of CameraSystem. *)
EXTENDS CameraSystem, TLC

CONSTANTS MaxId, MaxAdj     \* bounds on the keys of a row

MCEntry == [id : 1..MaxId, ip : IPs, adj : 0..MaxAdj]

(* Handler goroutines are interchangeable, and so are addresses and workers. *)
Symmetry == Permutations(Requests) \cup Permutations(IPs) \cup Permutations(Workers)
=============================================================================
