----------------------------- MODULE LatestFrame -----------------------------
(***************************************************************************)
(* What a CameraPollWorker promises to those who take snapshots of it: a    *)
(* register that holds the latest frame, replaced and read in one step. The *)
(* image and the time of a snapshot are those of one frame, and no reader   *)
(* sees an older frame after a newer one.                                   *)
(***************************************************************************)
EXTENDS Naturals

CONSTANTS Readers, MaxFrames

VARIABLES
  latest,   \* the latest frame, 0 before the first
  snap      \* the last snapshot each reader took

(* A frame and the time it was stored at have the same number. *)
Snapshot(f) == [image |-> f, time |-> f]

Init == latest = 0 /\ snap = [r \in Readers |-> Snapshot(0)]

Store(f) == f > latest /\ latest' = f /\ UNCHANGED snap

GetSnapshot(r) ==
  snap' = [snap EXCEPT ![r] = Snapshot(latest)] /\ UNCHANGED latest

Next ==
  \/ \E f \in 1..MaxFrames : Store(f)
  \/ \E r \in Readers : GetSnapshot(r)

Spec == Init /\ [][Next]_<<latest, snap>>
=============================================================================
