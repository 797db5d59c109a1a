----------------------------- MODULE FrameStore -----------------------------
(***************************************************************************)
(* The inside of one CameraPollWorker of pkg/camera: the poll goroutine     *)
(* that reads frames off the camera's stream, its deadline timer, and the   *)
(* handlers and bot commands that take snapshots, around one mutex.         *)
(*                                                                         *)
(* When the poller starts the worker and when it cancels its context are    *)
(* CameraPoller's subject; here both are free within what PollWorker lets   *)
(* the poller do, and CameraPoller is shown to do nothing else.             *)
(***************************************************************************)
EXTENDS Naturals

CONSTANTS
  Readers,     \* goroutines that call GetSnapshot
  Writer,      \* the poll goroutine, as a holder of the mutex
  None,        \* nobody, nil
  MaxFrames    \* bound on the frames decoded

ASSUME FrameStoreConstants ==
  /\ Writer \notin Readers
  /\ None \notin Readers \cup {Writer}
  /\ None \notin Nat
  /\ MaxFrames \in Nat

VARIABLES
  lastReadData,   \* the number of the stored frame, 0 for the empty image
  lastUpdated,    \* time of the last store, as the number of its frame
  mutex,          \* who holds it
  \* The poll goroutine.
  pc,             \* where it is
  isRunning,      \* IsRunning
  frame,          \* frames decoded so far, the last one in buf
  timer,          \* its AfterFunc timer
  deadline,       \* deadlineCtx is cancelled
  expired,        \* the http.Client's Timeout has passed for this connection
  \* Its surroundings.
  cancelled,      \* the worker's own context is cancelled
  rootDone,       \* the root context is cancelled
  silent,         \* the camera keeps the stream open and sends nothing
  \* Those who call GetSnapshot.
  rpc,            \* where each is
  data,           \* the copy it has made of lastReadData
  snap            \* the last snapshot it returned with

storeVars  == <<lastReadData, lastUpdated>>
pollVars   == <<pc, isRunning, frame, timer, deadline, expired>>
envVars    == <<cancelled, rootDone, silent>>
readerVars == <<rpc, data, snap>>
vars == <<storeVars, mutex, pollVars, envVars, readerVars>>

(* Not started; in client.Get; at the select; in image.Decode; waiting for the
   mutex with a frame; about to write lastReadData; about to write lastUpdated
   and unlock; about to reset the timer. *)
PollPC == {"off", "dial", "select", "decode", "lock", "data", "time", "reset"}

(* The goroutine has a response body and a deadline. *)
Connected == pc \notin {"off", "dial"}

Frames == 0..MaxFrames

TypeOK ==
  /\ lastReadData \in Frames /\ lastUpdated \in Frames
  /\ mutex \in Readers \cup {Writer, None}
  /\ pc \in PollPC /\ isRunning \in BOOLEAN /\ frame \in Frames
  /\ timer \in {"none", "armed", "fired"}
  /\ deadline \in BOOLEAN /\ expired \in BOOLEAN
  /\ cancelled \in BOOLEAN /\ rootDone \in BOOLEAN /\ silent \in BOOLEAN
  /\ rpc \in [Readers -> {"idle", "wait", "data", "time"}]
  /\ data \in [Readers -> Frames]
  /\ snap \in [Readers -> [image : Frames, time : Frames]]
-----------------------------------------------------------------------------
(* NewCameraPollWorker: an empty image, stamped with the time of creation. *)
EmptyImage == 0

Init ==
  /\ lastReadData = EmptyImage /\ lastUpdated = 0
  /\ mutex = None
  /\ pc = "off" /\ isRunning = FALSE /\ frame = 0
  /\ timer = "none" /\ deadline = FALSE /\ expired = FALSE
  /\ cancelled = FALSE /\ rootDone = FALSE /\ silent \in BOOLEAN
  /\ rpc = [r \in Readers |-> "idle"]
  /\ data = [r \in Readers |-> 0]
  /\ snap = [r \in Readers |-> [image |-> 0, time |-> 0]]
-----------------------------------------------------------------------------
(* The surroundings: the poller, and the camera. *)

Start ==
  /\ ~isRunning /\ ~cancelled
  /\ isRunning' = TRUE
  /\ pc' = "dial"
  /\ timer' = "none" /\ deadline' = FALSE /\ expired' = FALSE
  /\ UNCHANGED <<storeVars, mutex, frame, envVars, readerVars>>

Cancel ==
  /\ ~cancelled /\ cancelled' = TRUE
  /\ UNCHANGED <<storeVars, mutex, pollVars, rootDone, silent, readerVars>>

(* SIGINT. Start does not look: the poller may still start the worker. *)
CancelRoot ==
  /\ ~rootDone /\ rootDone' = TRUE
  /\ UNCHANGED <<storeVars, mutex, pollVars, cancelled, silent, readerVars>>

GoSilent ==
  /\ ~silent /\ silent' = TRUE
  /\ UNCHANGED <<storeVars, mutex, pollVars, cancelled, rootDone, readerVars>>

Resume ==
  /\ silent /\ silent' = FALSE
  /\ UNCHANGED <<storeVars, mutex, pollVars, cancelled, rootDone, readerVars>>

(* Mutant of ClientTimeout: an http.Client without Timeout. *)
ClientTimeoutNever == FALSE /\ UNCHANGED vars

(* One minute after client.Get was called, whatever has been read since. *)
ClientTimeout ==
  /\ pc # "off" /\ ~expired
  /\ expired' = TRUE
  /\ UNCHANGED <<storeVars, mutex, pc, isRunning, frame, timer, deadline,
                 envVars, readerVars>>

(* One second after the connection or the last Reset; a later Reset starts
   the timer again but does not bring deadlineCtx back. *)
DeadlinePasses ==
  /\ timer = "armed"
  /\ timer' = "fired" /\ deadline' = TRUE
  /\ UNCHANGED <<storeVars, mutex, pc, isRunning, frame, expired, envVars,
                 readerVars>>
-----------------------------------------------------------------------------
(* poll. *)

(* Mutant of Return: cleanup is not called. *)
ReturnUncleaned ==
  /\ pc' = "off"
  /\ UNCHANGED <<storeVars, mutex, isRunning, frame, timer, deadline, expired,
                 envVars, readerVars>>

(* The goroutine calls cleanup; the deferred Body.Close follows. *)
Return ==
  /\ pc' = "off" /\ isRunning' = FALSE
  /\ UNCHANGED <<storeVars, mutex, frame, timer, deadline, expired, envVars,
                 readerVars>>

Goto(label) ==
  /\ pc' = label
  /\ UNCHANGED <<storeVars, mutex, isRunning, frame, timer, deadline, expired,
                 envVars, readerVars>>

(* A camera that is down refuses; one that is silent lets the client time out. *)
DialFails == pc = "dial" /\ (silent => expired) /\ Return

Connect ==
  /\ pc = "dial" /\ ~silent /\ ~expired
  /\ pc' = "select" /\ timer' = "armed"
  /\ UNCHANGED <<storeVars, mutex, isRunning, frame, deadline, expired, envVars,
                 readerVars>>

Cancelled == cancelled \/ rootDone

BreakLoop == pc = "select" /\ (Cancelled \/ deadline) /\ Return

ReadNext == pc = "select" /\ ~Cancelled /\ ~deadline /\ Goto("decode")

DecodeFrame ==
  /\ pc = "decode" /\ ~silent /\ ~expired
  /\ frame < MaxFrames
  /\ frame' = frame + 1
  /\ pc' = "lock"
  /\ UNCHANGED <<storeVars, mutex, isRunning, timer, deadline, expired, envVars,
                 readerVars>>

(* Garbage, a multipart header, a closed stream, the client's timeout, or an
   image the encoder rejects: continue. Decode blocks while nothing comes. *)
DecodeFails == pc = "decode" /\ (silent => expired) /\ Goto("select")

(* Mutant of LockStore: the store is not protected. *)
LockStoreRacy ==
  /\ pc = "lock"
  /\ pc' = "data"
  /\ UNCHANGED <<storeVars, mutex, isRunning, frame, timer, deadline, expired,
                 envVars, readerVars>>

LockStore ==
  /\ pc = "lock" /\ mutex = None
  /\ mutex' = Writer /\ pc' = "data"
  /\ UNCHANGED <<storeVars, isRunning, frame, timer, deadline, expired, envVars,
                 readerVars>>

StoreData ==
  /\ pc = "data"
  /\ lastReadData' = frame
  /\ pc' = "time"
  /\ UNCHANGED <<lastUpdated, mutex, isRunning, frame, timer, deadline, expired,
                 envVars, readerVars>>

(* Mutant of StoreTime: the mutex stays locked. *)
StoreTimeLocked ==
  /\ pc = "time"
  /\ lastUpdated' = frame
  /\ pc' = "reset"
  /\ UNCHANGED <<lastReadData, mutex, isRunning, frame, timer, deadline, expired,
                 envVars, readerVars>>

StoreTime ==
  /\ pc = "time"
  /\ lastUpdated' = frame
  /\ mutex' = None /\ pc' = "reset"
  /\ UNCHANGED <<lastReadData, isRunning, frame, timer, deadline, expired,
                 envVars, readerVars>>

(* Mutant of ResetTimer: the timer is stopped, not started again. *)
ResetTimerStop ==
  /\ pc = "reset"
  /\ timer' = "none" /\ pc' = "select"
  /\ UNCHANGED <<storeVars, mutex, isRunning, frame, deadline, expired, envVars,
                 readerVars>>

ResetTimer ==
  /\ pc = "reset"
  /\ timer' = "armed" /\ pc' = "select"
  /\ UNCHANGED <<storeVars, mutex, isRunning, frame, deadline, expired, envVars,
                 readerVars>>
-----------------------------------------------------------------------------
(* GetSnapshot, called by /camera/snap, /camera/subscribe and the bot's /snap. *)

Call(r) ==
  /\ rpc[r] = "idle"
  /\ rpc' = [rpc EXCEPT ![r] = "wait"]
  /\ UNCHANGED <<storeVars, mutex, pollVars, envVars, data, snap>>

(* Mutant of LockSnapshot: the read is not protected. *)
LockSnapshotRacy(r) ==
  /\ rpc[r] = "wait"
  /\ rpc' = [rpc EXCEPT ![r] = "data"]
  /\ UNCHANGED <<storeVars, mutex, pollVars, envVars, data, snap>>

LockSnapshot(r) ==
  /\ rpc[r] = "wait" /\ mutex = None
  /\ mutex' = r
  /\ rpc' = [rpc EXCEPT ![r] = "data"]
  /\ UNCHANGED <<storeVars, pollVars, envVars, data, snap>>

CopyData(r) ==
  /\ rpc[r] = "data"
  /\ data' = [data EXCEPT ![r] = lastReadData]
  /\ rpc' = [rpc EXCEPT ![r] = "time"]
  /\ UNCHANGED <<storeVars, mutex, pollVars, envVars, snap>>

(* lastUpdated is read for the result, then the deferred Unlock runs. *)
ReturnSnapshot(r) ==
  /\ rpc[r] = "time"
  /\ snap' = [snap EXCEPT ![r] = [image |-> data[r], time |-> lastUpdated]]
  /\ mutex' = None
  /\ rpc' = [rpc EXCEPT ![r] = "idle"]
  /\ UNCHANGED <<storeVars, pollVars, envVars, data>>
-----------------------------------------------------------------------------
Surroundings == Start \/ Cancel \/ CancelRoot \/ GoSilent \/ Resume

Poll ==
  \/ DialFails \/ Connect
  \/ BreakLoop \/ ReadNext
  \/ DecodeFrame \/ DecodeFails
  \/ LockStore \/ StoreData \/ StoreTime \/ ResetTimer

GetSnapshot(r) ==
  Call(r) \/ LockSnapshot(r) \/ CopyData(r) \/ ReturnSnapshot(r)

Next ==
  \/ Surroundings
  \/ ClientTimeout \/ DeadlinePasses
  \/ Poll
  \/ \E r \in Readers : GetSnapshot(r)

Spec == Init /\ [][Next]_vars

(* Timers fire, a goroutine that can move moves, and a sync.Mutex that is
   released again and again is not kept from one who waits for it (its
   starvation mode). Decode ends when there are bytes or the client has timed
   out. Nothing is assumed of the camera, the poller or the callers. *)
Fairness ==
  /\ WF_vars(ClientTimeout) /\ WF_vars(DeadlinePasses)
  /\ WF_vars(Poll) /\ SF_vars(LockStore)
  /\ \A r \in Readers :
       /\ SF_vars(LockSnapshot(r))
       /\ WF_vars(CopyData(r)) /\ WF_vars(ReturnSnapshot(r))

FairSpec == Spec /\ Fairness
-----------------------------------------------------------------------------
(* No caller gets the image of one frame with the time of another, although
   both ends touch the two fields one after the other. *)
SnapshotConsistent == \A r \in Readers : snap[r].image = snap[r].time

(* While it has a connection, the goroutine has a deadline ahead of it or behind
   it: there is no way round the loop that leaves a dead stream unnoticed. *)
DeadlineSet == Connected => timer = "armed" \/ deadline

(* The worker implements the register of LatestFrame: a frame takes its place
   when lastUpdated is written. *)
Register == INSTANCE LatestFrame WITH latest <- lastUpdated

IsLatestFrame == Register!Spec

(* Seen from the poller, a frame that is stored is part of decoding. *)
Point == IF pc \in {"lock", "data", "time", "reset"} THEN "decode" ELSE pc
Life  == INSTANCE PollWorker WITH running <- isRunning, point <- Point

(* The worker lives the life CameraPoller counts on: IsRunning is cleared
   at the goroutine's cleanup, whichever way it ends, and a worker that was told to end starts no
   further frame. *)
IsPollWorker == Life!Spec

(* A camera that keeps its stream open and sends nothing does not hold its
   worker for good, although the deadline cannot interrupt image.Decode: the
   worker ends, and the poller may connect again. *)
SilentCameraReleased == silent ~> (~isRunning \/ ~silent)

(* Whoever asks for a snapshot gets one, whatever the camera does. *)
SnapshotReturns == \A r \in Readers : rpc[r] = "wait" ~> rpc[r] = "idle"
=============================================================================
