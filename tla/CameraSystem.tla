----------------------------- MODULE CameraSystem -----------------------------
(***************************************************************************)
(* The camera subsystem put together: the handlers of CameraRegistry and    *)
(* the poller and workers of CameraPoller, in one process, on one table.    *)
(*                                                                         *)
(* The two meet in three variables: the table, the poller's copy of it and  *)
(* ShouldUpdateEntries.  Every step is a step of a handler, which the       *)
(* poller sees as a change of the table or a flag set, or of the poller;    *)
(* the query of UpdateStatus takes two, so that handlers may commit between *)
(* its answer and its assignment.                                           *)
(***************************************************************************)
EXTENDS CameraRegistry

CONSTANTS
  Entry,        \* rows the camera table may have (bounds the keys)
  Workers,      \* CameraPollWorker objects
  MaxChanges,   \* bound on the committed changes of the camera table
  MaxBoots      \* bound on the starts of the server process

ASSUME SystemConstants ==
  /\ \A e \in Entry : e.ip \in IPs
  /\ None \notin Entry \cup Workers
  /\ MaxChanges \in Nat /\ MaxBoots \in Nat

VARIABLES
  owed,         \* commits of this process whose flag is not set
  changes,      \* changes committed so far (bounded by MaxChanges)
  boots, rootDone,
  pollWorkers, cancelFuncs, pc, todo, keys,
  endpoint, running, ctxDone, polls    \* as in CameraPoller

commitVars == <<owed, changes>>
procVars   == <<boots, rootDone>>
workVars   == <<pollWorkers, cancelFuncs, keys, endpoint, running, ctxDone, polls>>
ownVars    == <<commitVars, procVars, pc, todo, workVars>>
sysVars    == <<vars, ownVars>>

(* The variables of the handlers and the query, which the poller's own steps
   leave alone. *)
handlerVars == <<adjs, nextCam, nextAdj, req, querying, fetched, faultVars, requestVars>>

(* The poller at work on the handlers' table. *)
L == INSTANCE CameraPoller WITH rows <- cams, cameras <- loaded, unsignalled <- owed

SysInit == Init /\ L!Init
-----------------------------------------------------------------------------
(* The handlers: the server listens while the poller is up. *)

(* The two calls that change the table; the flag is owed from then on, and for
   good if the answer is lost. *)
Commit(r) ==
  /\ L!Up /\ changes < MaxChanges
  /\ (InsertCamera(r) /\ NewRow(r) \in Entry) \/ DeleteCamera(r)
  /\ changes' = changes + 1 /\ owed' = owed + 1
  /\ UNCHANGED <<procVars, pc, todo, workVars>>

(* Every other step on the way to the response. *)
Serve(r) ==
  /\ L!Up
  /\ \/ \E ip \in IPs : Receive(r, "lookup", ip) \/ Receive(r, "find", ip)
     \/ LookupFound(r) \/ LookupMissing(r) \/ LookupAmbiguous(r)
     \/ InsertAdjustment(r) \/ InsertConflict(r)
     \/ FindCamera(r) \/ FindNothing(r)
     \/ DeleteAdjustment(r)
     \/ WriteRefused(r)
  /\ UNCHANGED ownVars

SetFlag(r) ==
  /\ L!Up /\ Signal(r)
  /\ owed' = owed - 1
  /\ UNCHANGED <<changes, procVars, pc, todo, workVars>>

-----------------------------------------------------------------------------
(* UpdateStatus in a tick. *)

(* The table is read, and the answer is on its way. *)
QueryAnswered ==
  /\ pc = "refresh" /\ QueryCameras
  /\ UNCHANGED ownVars

(* Mutant of QueryStored: the loop runs over the list of the tick before. *)
QueryStoredStale ==
  /\ pc = "refresh" /\ StoreCameras
  /\ todo' = loaded /\ pc' = "ensure"
  /\ UNCHANGED <<commitVars, procVars, workVars>>

(* camPoller.cameras is assigned what was read. *)
QueryStored ==
  /\ pc = "refresh" /\ StoreCameras
  /\ todo' = fetched /\ pc' = "ensure"
  /\ UNCHANGED <<commitVars, procVars, workVars>>

(* A query that fails anywhere has changed nothing. *)
QueryFails ==
  /\ ~querying /\ L!RefreshFails
  /\ UNCHANGED handlerVars
-----------------------------------------------------------------------------
(* The rest of the poller, and the workers. *)

PollerMoves ==
  /\ \/ L!Tick \/ L!StopPoller
     \/ \E r \in todo, w \in Workers : L!CreateWorker(r, w)
     \/ \E r \in todo : L!RestartWorker(r) \/ L!SkipWorker(r)
     \/ L!EnsureDone
     \/ \E ip \in keys : L!KeepWorker(ip) \/ L!ReapWorker(ip)
     \/ L!ReapDone
  /\ UNCHANGED handlerVars

WorkerMoves(w) == L!PollStep(w) /\ UNCHANGED handlerVars

(* The process: its end takes handlers, poller and workers along. Restart has
   NewCameraPoller's list read at the end of the old process; nobody writes the
   table before the new one is up. *)
Boot == L!Boot /\ UNCHANGED handlerVars

CancelRoot == L!CancelRoot /\ UNCHANGED handlerVars

ProcessDies ==
  /\ L!Up /\ Restart
  /\ owed' = 0 /\ L!Forget
  /\ UNCHANGED <<changes, boots>>

SysNext ==
  \/ \E r \in Requests : Commit(r) \/ Serve(r) \/ SetFlag(r)
  \/ QueryAnswered \/ QueryStored \/ QueryFails
  \/ PollerMoves
  \/ \E w \in Workers : WorkerMoves(w)
  \/ Boot \/ CancelRoot \/ ProcessDies

SysSpec == SysInit /\ [][SysNext]_sysVars
-----------------------------------------------------------------------------
(* Refinement. *)

(* To CameraPoller, the list is new as soon as the table has been read, and gone
   with the process. *)
P == INSTANCE CameraPoller WITH
       rows        <- cams,
       unsignalled <- owed,
       cameras     <- IF pc = "down" THEN {} ELSE IF querying THEN fetched ELSE loaded,
       pc          <- IF querying THEN "ensure" ELSE pc,
       todo        <- IF querying THEN fetched ELSE todo

(* The handlers behind the poller are what CameraPoller takes them for, a table
   that changes and a flag that follows, whatever they do to the adjustments, how
   their calls go and when: what is shown of the poller there holds here. *)
PollerImplemented == P!Spec
=============================================================================
