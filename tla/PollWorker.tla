----------------------------- MODULE PollWorker -----------------------------
(***************************************************************************)
(* The life of one CameraPollWorker of pkg/camera: what the poller may do   *)
(* to a worker, and what the worker's goroutine does of itself.             *)
(*                                                                         *)
(* CameraPoller relies on the second and shows the first for each of its    *)
(* workers; FrameStore relies on the first and shows the second in detail.  *)
(***************************************************************************)

VARIABLES
  running,     \* IsRunning
  cancelled,   \* the worker's own context is cancelled
  point        \* where its goroutine is

vars == <<running, cancelled, point>>

(* No goroutine; in client.Get; at the select; in image.Decode, or storing what
   it returned. *)
Point == {"off", "dial", "select", "decode"}

Init == running = FALSE /\ cancelled = FALSE /\ point = "off"
-----------------------------------------------------------------------------
(* The poller. *)

(* Start: only a worker that has ended is started, and none that was told to. *)
Start ==
  /\ ~running /\ ~cancelled
  /\ running' = TRUE /\ point' = "dial"
  /\ UNCHANGED cancelled

Cancel == cancelled' = TRUE /\ UNCHANGED <<running, point>>

(* The object is given to a new camera: its goroutine has ended. *)
Renew == ~running /\ cancelled' = FALSE /\ UNCHANGED <<running, point>>
-----------------------------------------------------------------------------
(* The goroutine. *)

Connect ==
  /\ point = "dial" /\ point' = "select"
  /\ UNCHANGED <<running, cancelled>>

(* Nothing is read on behalf of a worker that was told to end. *)
Read ==
  /\ point = "select" /\ ~cancelled
  /\ point' = "decode"
  /\ UNCHANGED <<running, cancelled>>

Done ==
  /\ point = "decode" /\ point' = "select"
  /\ UNCHANGED <<running, cancelled>>

(* cleanup clears IsRunning; all that follows it is the deferred Body.Close. *)
End ==
  /\ point \in {"dial", "select"}
  /\ running' = FALSE /\ point' = "off"
  /\ UNCHANGED cancelled
-----------------------------------------------------------------------------
ProcessDies == running' = FALSE /\ cancelled' = FALSE /\ point' = "off"

Next ==
  \/ Start \/ Cancel \/ Renew
  \/ Connect \/ Read \/ Done \/ End
  \/ ProcessDies

Spec == Init /\ [][Next]_vars
=============================================================================
