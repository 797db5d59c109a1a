---------------------------- MODULE CameraPoller ----------------------------
(***************************************************************************)
(* The camera poller of pkg/camera: one goroutine (updateWorkerStatus) that *)
(* once per second reconciles its map of CameraPollWorkers with the camera  *)
(* table, and one goroutine (poll) per started worker.                      *)
(*                                                                         *)
(* The HTTP handlers appear here only through what the poller can see of    *)
(* them: a committed change of the table, and, some time later, the flag    *)
(* ShouldUpdateEntries.  CameraRegistry models them in full, and            *)
(* CameraSystem the two together.  PollWorker says what the poller and a    *)
(* worker promise each other; FrameStore models what a poll goroutine does  *)
(* with the frames it decodes.                                              *)
(***************************************************************************)
EXTENDS Naturals

CONSTANTS
  IPs,          \* camera addresses, the keys of PollWorkers
  Entry,        \* rows the camera table may have
  Workers,      \* CameraPollWorker objects (heap addresses)
  None,         \* nil pointer, absent map key
  MaxChanges,   \* bound on the committed changes of the camera table
  MaxBoots      \* bound on the starts of the server process

(* Of a row the poller reads the address, and copies the rest (port, name) into
   the worker it creates. *)
ASSUME PollerConstants ==
  /\ None \notin Workers
  /\ None \notin Entry
  /\ \A e \in Entry : e.ip \in IPs
  /\ MaxChanges \in Nat
  /\ MaxBoots \in Nat

VARIABLES
  \* The database and the handlers that write it.
  rows,          \* the camera table
  unsignalled,   \* handlers that committed a change and have not set the flag
  changes,       \* changes committed so far (bounded by MaxChanges)
  \* The process.
  boots,         \* starts of the process so far (bounded by MaxBoots)
  rootDone,      \* the root context is cancelled
  \* The CameraPoller and the locals of updateWorkerStatus.
  shouldUpdate,  \* ShouldUpdateEntries
  cameras,       \* cameras, the poller's copy of the table
  pollWorkers,   \* PollWorkers: IP -> worker
  cancelFuncs,   \* workerCtxCancelMp: IP -> worker whose context it cancels
  pc,            \* where the poller goroutine is
  todo,          \* entries the loop over cameras has still to visit
  keys,          \* keys the loop over PollWorkers has still to visit
  \* The workers.
  endpoint,      \* the entry a worker's stream URL was built from
  running,       \* IsRunning
  ctxDone,       \* the worker's context is cancelled
  polls          \* poll goroutines of each worker, counted by where they are

dbVars     == <<rows, unsignalled, changes>>
procVars   == <<boots, rootDone>>
pollerVars == <<shouldUpdate, cameras, pollWorkers, cancelFuncs, pc, todo, keys>>
workerVars == <<endpoint, running, ctxDone, polls>>
vars       == <<dbVars, procVars, pollerVars, workerVars>>

(* The poller goroutine: before its first tick, between ticks, in UpdateStatus,
   in the loop over cameras, in the loop over PollWorkers, returned. *)
PollerPC == {"down", "first", "select", "refresh", "ensure", "reap", "stopped"}

(* Before client.Get returns; at the select; inside image.Decode. *)
PollPoint == {"dial", "select", "decode"}

NoPoll == [p \in PollPoint |-> 0]
Polls(w) == polls[w]["dial"] + polls[w]["select"] + polls[w]["decode"]

IPsOf(entries) == {e.ip : e \in entries}
Tracked        == {ip \in IPs : pollWorkers[ip] # None}
Registered(w)  == \E ip \in IPs : pollWorkers[ip] = w
Up             == pc # "down"

(* Objects the allocator may hand out: unreachable from the map and from any
   goroutine. *)
Free(w) == ~Registered(w) /\ polls[w] = NoPoll

TypeOK ==
  /\ rows \in SUBSET Entry /\ unsignalled \in Nat /\ changes \in Nat
  /\ boots \in Nat /\ rootDone \in BOOLEAN
  /\ shouldUpdate \in BOOLEAN
  /\ cameras \in SUBSET Entry
  /\ pollWorkers \in [IPs -> Workers \cup {None}]
  /\ cancelFuncs \in [IPs -> Workers \cup {None}]
  /\ pc \in PollerPC
  /\ todo \in SUBSET Entry /\ keys \in SUBSET IPs
  /\ endpoint \in [Workers -> Entry \cup {None}]
  /\ running \in [Workers -> BOOLEAN]
  /\ ctxDone \in [Workers -> BOOLEAN]
  /\ polls \in [Workers -> [PollPoint -> Nat]]
-----------------------------------------------------------------------------
(* The process: everything but the table is lost when it dies. *)

Nil == [ip \in IPs |-> None]

Init ==
  /\ rows \in SUBSET Entry      \* whatever earlier runs of the server left
  /\ unsignalled = 0 /\ changes = 0
  /\ boots = 0 /\ rootDone = FALSE
  /\ shouldUpdate = FALSE /\ cameras = {}
  /\ pollWorkers = Nil /\ cancelFuncs = Nil
  /\ pc = "down" /\ todo = {} /\ keys = {}
  /\ endpoint = [w \in Workers |-> None]
  /\ running = [w \in Workers |-> FALSE]
  /\ ctxDone = [w \in Workers |-> FALSE]
  /\ polls = [w \in Workers |-> NoPoll]

(* Mutant of BootCameras: the constructor leaves the list empty. *)
BootCamerasUnread == {}

(* NewCameraPoller reads the table before the first request is served. *)
BootCameras == rows

(* CreateRoutes: NewCameraPoller, then StartPolling. *)
Boot ==
  /\ pc = "down" /\ boots < MaxBoots
  /\ boots' = boots + 1
  /\ cameras' = BootCameras
  /\ pc' = "first"
  /\ UNCHANGED <<dbVars, rootDone, shouldUpdate, pollWorkers, cancelFuncs,
                 todo, keys, workerVars>>

(* SIGINT: the root context is cancelled, os.Exit follows a second later. *)
CancelRoot ==
  /\ Up /\ ~rootDone
  /\ rootDone' = TRUE
  /\ UNCHANGED <<dbVars, boots, pollerVars, workerVars>>

(* What dies with the process, besides the handlers and the list. *)
Forget ==
  /\ rootDone' = FALSE
  /\ pollWorkers' = Nil /\ cancelFuncs' = Nil
  /\ pc' = "down" /\ todo' = {} /\ keys' = {}
  /\ endpoint' = [w \in Workers |-> None]
  /\ running' = [w \in Workers |-> FALSE]
  /\ ctxDone' = [w \in Workers |-> FALSE]
  /\ polls' = [w \in Workers |-> NoPoll]

(* os.Exit after the grace second, or any other end of the process, at any
   point of any goroutine. *)
ProcessDies ==
  /\ Up
  /\ unsignalled' = 0
  /\ shouldUpdate' = FALSE /\ cameras' = {}
  /\ Forget
  /\ UNCHANGED <<rows, changes, boots>>
-----------------------------------------------------------------------------
(* What the /camera/add and /camera/remove handlers do to the poller. *)

AddEntry(e) ==
  /\ Up /\ changes < MaxChanges
  /\ e \notin rows
  /\ rows' = rows \cup {e}
  /\ unsignalled' = unsignalled + 1 /\ changes' = changes + 1
  /\ UNCHANGED <<procVars, pollerVars, workerVars>>

(* Every row of the address; none, when another handler was faster. *)
RemoveEntries(ip) ==
  /\ Up /\ changes < MaxChanges
  /\ rows' = {e \in rows : e.ip # ip}
  /\ unsignalled' = unsignalled + 1 /\ changes' = changes + 1
  /\ UNCHANGED <<procVars, pollerVars, workerVars>>

SignalPoller ==
  /\ unsignalled > 0
  /\ unsignalled' = unsignalled - 1
  /\ shouldUpdate' = TRUE
  /\ UNCHANGED <<rows, changes, procVars, cameras, pollWorkers, cancelFuncs,
                 pc, todo, keys, workerVars>>
-----------------------------------------------------------------------------
(* updateWorkerStatus: one tick. *)

StopPoller ==
  /\ pc \in {"first", "select"} /\ rootDone
  /\ pc' = "stopped"
  /\ UNCHANGED <<dbVars, procVars, shouldUpdate, cameras, pollWorkers,
                 cancelFuncs, todo, keys, workerVars>>

(* Go picks at random among the ready cases: a tick may win over ctx.Done. The
   flag is read here and never cleared. *)
Tick ==
  /\ pc \in {"first", "select"}
  /\ IF shouldUpdate
       THEN pc' = "refresh" /\ todo' = todo
       ELSE pc' = "ensure" /\ todo' = cameras
  /\ UNCHANGED <<dbVars, procVars, shouldUpdate, cameras, pollWorkers,
                 cancelFuncs, keys, workerVars>>

Refresh ==
  /\ pc = "refresh"
  /\ cameras' = rows
  /\ todo' = cameras'
  /\ pc' = "ensure"
  /\ UNCHANGED <<dbVars, procVars, shouldUpdate, pollWorkers, cancelFuncs, keys,
                 workerVars>>

(* The query fails: logged, and the tick goes on with the old list. *)
RefreshFails ==
  /\ pc = "refresh"
  /\ todo' = cameras
  /\ pc' = "ensure"
  /\ UNCHANGED <<dbVars, procVars, shouldUpdate, cameras, pollWorkers,
                 cancelFuncs, keys, workerVars>>

(* The loop over cameras: a new worker is stored but not started before the
   next entry with its IP, which is normally the next tick's. *)
CreateWorker(r, w) ==
  /\ pc = "ensure" /\ r \in todo
  /\ pollWorkers[r.ip] = None /\ Free(w)
  /\ pollWorkers' = [pollWorkers EXCEPT ![r.ip] = w]
  /\ cancelFuncs' = [cancelFuncs EXCEPT ![r.ip] = w]
  /\ endpoint' = [endpoint EXCEPT ![w] = r]
  /\ running' = [running EXCEPT ![w] = FALSE]
  /\ ctxDone' = [ctxDone EXCEPT ![w] = FALSE]
  /\ todo' = todo \ {r}
  /\ UNCHANGED <<dbVars, procVars, shouldUpdate, cameras, pc, keys, polls>>

(* Mutant of RestartWorker: IsRunning is checked neither here nor in Start. *)
RestartWorkerUnchecked(r) ==
  LET w == pollWorkers[r.ip] IN
  /\ pc = "ensure" /\ r \in todo
  /\ w # None
  /\ running' = [running EXCEPT ![w] = TRUE]
  /\ polls' = [polls EXCEPT ![w]["dial"] = @ + 1]
  /\ todo' = todo \ {r}
  /\ UNCHANGED <<dbVars, procVars, shouldUpdate, cameras, pollWorkers,
                 cancelFuncs, pc, keys, endpoint, ctxDone>>

(* The goroutine that clears IsRunning and the poller that reads it do not
   synchronise: a stale TRUE delays the restart by a tick or more, which is
   the goroutine's own exit action happening later. *)
RestartWorker(r) ==
  LET w == pollWorkers[r.ip] IN
  /\ pc = "ensure" /\ r \in todo
  /\ w # None /\ ~running[w]
  /\ running' = [running EXCEPT ![w] = TRUE]
  /\ polls' = [polls EXCEPT ![w]["dial"] = @ + 1]
  /\ todo' = todo \ {r}
  /\ UNCHANGED <<dbVars, procVars, shouldUpdate, cameras, pollWorkers,
                 cancelFuncs, pc, keys, endpoint, ctxDone>>

SkipWorker(r) ==
  LET w == pollWorkers[r.ip] IN
  /\ pc = "ensure" /\ r \in todo
  /\ w # None /\ running[w]
  /\ todo' = todo \ {r}
  /\ UNCHANGED <<dbVars, procVars, shouldUpdate, cameras, pollWorkers,
                 cancelFuncs, pc, keys, workerVars>>

EnsureDone ==
  /\ pc = "ensure" /\ todo = {}
  /\ pc' = "reap"
  /\ keys' = Tracked
  /\ UNCHANGED <<dbVars, procVars, shouldUpdate, cameras, pollWorkers,
                 cancelFuncs, todo, workerVars>>

(* Mutant of KeepWorker: the search for the camera is skipped. *)
KeepWorkerUnsearched(ip) ==
  /\ pc = "reap" /\ ip \in keys
  /\ keys' = keys \ {ip}
  /\ UNCHANGED <<dbVars, procVars, shouldUpdate, cameras, pollWorkers,
                 cancelFuncs, pc, todo, workerVars>>

KeepWorker(ip) ==
  /\ pc = "reap" /\ ip \in keys
  /\ ip \in IPsOf(cameras)
  /\ keys' = keys \ {ip}
  /\ UNCHANGED <<dbVars, procVars, shouldUpdate, cameras, pollWorkers,
                 cancelFuncs, pc, todo, workerVars>>

(* Mutants of ReapWorker: the context is not cancelled; the cancel function
   is left behind; the worker is left in PollWorkers. *)
ReapWorkerUncancelled(ip) ==
  /\ pc = "reap" /\ ip \in keys
  /\ ip \notin IPsOf(cameras)
  /\ pollWorkers' = [pollWorkers EXCEPT ![ip] = None]
  /\ cancelFuncs' = [cancelFuncs EXCEPT ![ip] = None]
  /\ keys' = keys \ {ip}
  /\ UNCHANGED <<dbVars, procVars, shouldUpdate, cameras, pc, todo, workerVars>>

ReapWorkerKeepsCancel(ip) ==
  /\ pc = "reap" /\ ip \in keys
  /\ ip \notin IPsOf(cameras)
  /\ ctxDone' = [ctxDone EXCEPT ![cancelFuncs[ip]] = TRUE]
  /\ pollWorkers' = [pollWorkers EXCEPT ![ip] = None]
  /\ keys' = keys \ {ip}
  /\ UNCHANGED <<dbVars, procVars, shouldUpdate, cameras, cancelFuncs, pc, todo,
                 endpoint, running, polls>>

ReapWorkerKeepsWorker(ip) ==
  /\ pc = "reap" /\ ip \in keys
  /\ ip \notin IPsOf(cameras)
  /\ ctxDone' = [ctxDone EXCEPT ![cancelFuncs[ip]] = TRUE]
  /\ keys' = keys \ {ip}
  /\ UNCHANGED <<dbVars, procVars, shouldUpdate, cameras, pollWorkers,
                 cancelFuncs, pc, todo, endpoint, running, polls>>

ReapWorker(ip) ==
  /\ pc = "reap" /\ ip \in keys
  /\ ip \notin IPsOf(cameras)
  /\ ctxDone' = [ctxDone EXCEPT ![cancelFuncs[ip]] = TRUE]
  /\ pollWorkers' = [pollWorkers EXCEPT ![ip] = None]
  /\ cancelFuncs' = [cancelFuncs EXCEPT ![ip] = None]
  /\ keys' = keys \ {ip}
  /\ UNCHANGED <<dbVars, procVars, shouldUpdate, cameras, pc, todo, endpoint,
                 running, polls>>

ReapDone ==
  /\ pc = "reap" /\ keys = {}
  /\ pc' = "select"
  /\ UNCHANGED <<dbVars, procVars, shouldUpdate, cameras, pollWorkers,
                 cancelFuncs, todo, keys, workerVars>>
-----------------------------------------------------------------------------
(* poll: one goroutine of worker w. *)

(* The goroutine at point p calls cleanup and is counted no more. What is left of it,
   the deferred Body.Close if it was connected, touches nothing of the worker. *)
Exit(w, p) ==
  /\ polls' = [polls EXCEPT ![w][p] = @ - 1]
  /\ running' = [running EXCEPT ![w] = FALSE]
  /\ UNCHANGED <<dbVars, procVars, pollerVars, endpoint, ctxDone>>

Move(w, p, q) ==
  /\ polls' = [polls EXCEPT ![w][p] = @ - 1, ![w][q] = @ + 1]
  /\ UNCHANGED <<dbVars, procVars, pollerVars, endpoint, running, ctxDone>>

DialFails(w) == polls[w]["dial"] > 0 /\ Exit(w, "dial")
Connect(w)   == polls[w]["dial"] > 0 /\ Move(w, "dial", "select")

(* Mutant of Cancelled: the worker's own context is not selected on. *)
CancelledRootOnly(w) == rootDone

Cancelled(w) == ctxDone[w] \/ rootDone

Terminate(w) == polls[w]["select"] > 0 /\ Cancelled(w) /\ Exit(w, "select")

(* A second without a stored frame. *)
DeadlineExceeded(w) == polls[w]["select"] > 0 /\ Exit(w, "select")

(* Go takes default only when no case is ready. *)
ReadFrame(w) ==
  polls[w]["select"] > 0 /\ ~Cancelled(w) /\ Move(w, "select", "decode")

(* image.Decode returns, with a frame that is stored or with an error. *)
FrameDone(w) == polls[w]["decode"] > 0 /\ Move(w, "decode", "select")
-----------------------------------------------------------------------------
Environment ==
  \/ Boot \/ CancelRoot \/ ProcessDies
  \/ \E e \in Entry : AddEntry(e)
  \/ \E ip \in IPs : RemoveEntries(ip)

PollerStep ==
  \/ Tick \/ Refresh \/ RefreshFails
  \/ \E r \in todo, w \in Workers : CreateWorker(r, w)
  \/ \E r \in todo : RestartWorker(r) \/ SkipWorker(r)
  \/ EnsureDone
  \/ \E ip \in keys : KeepWorker(ip) \/ ReapWorker(ip)
  \/ ReapDone

PollStep(w) ==
  \/ DialFails(w) \/ Connect(w)
  \/ Terminate(w) \/ DeadlineExceeded(w)
  \/ ReadFrame(w) \/ FrameDone(w)

Next ==
  \/ Environment
  \/ SignalPoller
  \/ PollerStep \/ StopPoller
  \/ \E w \in Workers : PollStep(w)

Spec == Init /\ [][Next]_vars

(* A handler that has committed goes on to set the flag, the database having
   acknowledged the change; the ticker keeps
   ticking; the database answers a query sooner or later; the dial and the body
   reads of a stream end, at the latest by the client's one-minute Timeout.
   Nothing is assumed of the users, the cameras or the signals. *)
Fairness ==
  /\ WF_vars(SignalPoller)
  /\ WF_vars(PollerStep)
  /\ SF_vars(Refresh)
  /\ \A w \in Workers : WF_vars(PollStep(w))

FairSpec == Spec /\ Fairness
-----------------------------------------------------------------------------
(* Safety. *)

(* workerCtxCancelMp has an entry for exactly the workers of PollWorkers, and
   it cancels that worker: with a key missing, the reaping loop would call a
   nil function and take the whole process down. *)
CancelFuncsInSync == cancelFuncs = pollWorkers

(* Stopping a worker and starting it are steps of two goroutines; still, a
   worker has one poll goroutine while IsRunning says so, and none otherwise:
   never two writers of the same frame, never a running worker that nobody
   serves and that the poller will not restart. (Goroutines are counted up to
   their cleanup; one that is still closing its body may meet the next one.) *)
OnePoll == \A w \in Workers : Polls(w) = IF running[w] THEN 1 ELSE 0

(* A goroutine that streams is either reachable by the poller or has been told
   to end: a removed camera leaves no connection nobody can close. *)
NoLeakedWorker ==
  \A w \in Workers : running[w] => Registered(w) \/ ctxDone[w]

(* Between ticks, there is a worker for every camera of the list and for no
   other, whatever the order in which the loops met them, duplicates of an IP
   included. *)
TickApplied == pc = "select" => Tracked = IPsOf(cameras)

(* The comment in updateWorkerStatus, "creating/terminating as needed to reflect the
   current state": after a tick every worker reads from a camera of the list. *)
WorkersMatchEntries ==
  pc = "select" =>
    \A ip \in Tracked : endpoint[pollWorkers[ip]] \in cameras

(* A worker whose context is cancelled is never started again: its goroutine
   would end at once, and the next tick would start it again, forever. *)
CancelledNeverStarted ==
  [][\A w \in Workers :
       ctxDone[w] /\ ctxDone'[w] => polls'[w]["dial"] <= polls[w]["dial"]]_vars
-----------------------------------------------------------------------------
(* Refinement. *)

(* Where a worker's goroutine is, OnePoll given. *)
Point(count) ==
  IF count = NoPoll THEN "off" ELSE CHOOSE p \in PollPoint : count[p] > 0

Life(w) == INSTANCE PollWorker
             WITH running <- running[w], cancelled <- ctxDone[w],
                  point <- Point(polls[w])

(* Whatever the poller makes of its map, each worker is started only when it has
   ended and has not been told to, and reads nothing once it has: what FrameStore
   takes for granted about its surroundings. Life(w)!Spec for every w, in the form
   TLC evaluates. *)
WorkersAreLives ==
  /\ \A w \in Workers : Life(w)!Init
  /\ [][\A w \in Workers : [Life(w)!Next]_(Life(w)!vars)]_vars
-----------------------------------------------------------------------------
(* Liveness. *)

Polled(ip) == pollWorkers[ip] # None /\ running[pollWorkers[ip]]

(* A camera in the table is polled sooner or later, by whatever path it got
   there (an earlier run of the server, a handler racing with the tick), as long
   as it stays and the server does. *)
AddedGetsPolled ==
  \A ip \in IPs :
    (Up /\ ip \in IPsOf(rows)) ~>
      (Polled(ip) \/ ip \notin IPsOf(rows) \/ rootDone \/ ~Up)

(* Once its camera is removed, a worker stops reading from it, even when its
   stream never goes quiet. *)
RemovedStopsStreaming ==
  \A w \in Workers :
    (running[w] /\ endpoint[w].ip \notin IPsOf(rows)) ~>
      (~running[w] \/ endpoint[w].ip \in IPsOf(rows))
=============================================================================
