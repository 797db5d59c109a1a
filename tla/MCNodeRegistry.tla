--------------------------- MODULE MCNodeRegistry ---------------------------
(* TLC instances of NodeRegistry. *)
EXTENDS NodeRegistry, TLC

(* Handler goroutines are interchangeable, and so are certificates. *)
Symmetry == Permutations(Requests) \cup Permutations(Certs)
=============================================================================
