---------------------------- MODULE MCFrameStore ----------------------------
(* TLC instances of FrameStore. *)
EXTENDS FrameStore, TLC

(* Readers are interchangeable; only for the runs without liveness. *)
Symmetry == Permutations(Readers)
=============================================================================
