---------------------------- MODULE CameraService ----------------------------
(***************************************************************************)
(* Those who read CameraPoller.PollWorkers without a lock while the poller  *)
(* writes it: the handlers of /camera/snap and /camera/subscribe and the    *)
(* bot's /snap.                                                             *)
(*                                                                         *)
(* A worker is what FrameStore shows it to be, a register that is read in   *)
(* one step. The map is a Go map: a write is an interval, in which another  *)
(* goroutine's access may find the map as it was before or, if the runtime  *)
(* notices, ends the process with a fatal error; a range loop yields every  *)
(* key that stays, may yield or skip one that is inserted meanwhile, never   *)
(* yields one that is gone, and may yield one again that is gone and back.   *)
(***************************************************************************)
EXTENDS Naturals

CONSTANTS
  IPs,           \* camera addresses, the keys of PollWorkers
  All,           \* a request that names no camera
  None,          \* no key
  Readers,       \* goroutines that may read PollWorkers at a time
  Kinds,         \* what they are, a subset of ReaderKind
  MaxWorkers,    \* bound on the workers created for an address
  MaxFrames      \* bound on the frames a worker stores

(* The handlers of GET /camera/snap and GET /camera/subscribe, and the goroutine
   of StartBot. *)
ReaderKind == {"snap", "subscribe", "bot"}

ASSUME ServiceConstants ==
  /\ All \notin IPs /\ None \notin IPs \cup ReaderKind
  /\ Kinds \subseteq ReaderKind
  /\ MaxWorkers \in Nat /\ MaxFrames \in Nat

VARIABLES
  phase,     \* the server process
  workers,   \* PollWorkers: the number of an address's worker, 0 if absent
  created,   \* workers created so far for each address
  writing,   \* the key the poller is inserting or deleting
  latest,    \* the latest frame of each worker, 0 for the empty image
  reader     \* the local state of each reader

pollerVars == <<workers, created, writing, latest>>
vars       == <<phase, pollerVars, reader>>

Worker == IPs \X (1..MaxWorkers)

(* An entry of the response: the worker it is of, and its frame. *)
Image == [worker : Worker, frame : 0..MaxFrames]

(* The bot's goroutine and the database exist; the poller and the routes exist;
   ended. *)
Phase == {"starting", "serving", "dead"}

(* No request; in PollWorkers[ip]; in the range loop, between two keys; with a
   worker in hand; with everything to respond; until the next 10 ms. *)
ReaderPC == {"idle", "lookup", "range", "snapshot", "respond", "wait"}

(* always, ever: the keys that have been in the map for the whole of the current
   response, and at some time of it. before: the frames at its start. *)
ReaderState ==
  [kind : Kinds \cup {None}, pc : ReaderPC, ip : IPs \cup {All}, visited : SUBSET IPs,
   entry : Worker \cup {None}, images : SUBSET Image,
   always : SUBSET IPs, ever : SUBSET IPs,
   before : [Worker -> 0..MaxFrames]]

TypeOK ==
  /\ phase \in Phase
  /\ workers \in [IPs -> 0..MaxWorkers] /\ created \in [IPs -> 0..MaxWorkers]
  /\ writing \in IPs \cup {None}
  /\ latest \in [Worker -> 0..MaxFrames]
  /\ reader \in [Readers -> ReaderState]

NoFrames == [w \in Worker |-> 0]

Idle == [kind |-> None, pc |-> "idle", ip |-> All, visited |-> {}, entry |-> None,
         images |-> {}, always |-> {}, ever |-> {}, before |-> NoFrames]

Init ==
  /\ phase = "starting"
  /\ workers = [ip \in IPs |-> 0] /\ created = [ip \in IPs |-> 0]
  /\ writing = None
  /\ latest = NoFrames
  /\ reader = [r \in Readers |-> Idle]

Tracked == {ip \in IPs : workers[ip] # 0}
At(r, label) == phase # "dead" /\ reader[r].pc = label
Is(r, kind)  == reader[r].kind = kind
-----------------------------------------------------------------------------
(* The process. *)

(* InitRootRoute has created the poller; the server listens. *)
Serve ==
  /\ phase = "starting" /\ phase' = "serving"
  /\ UNCHANGED <<pollerVars, reader>>

Die ==
  /\ phase' = "dead"
  /\ UNCHANGED <<pollerVars, reader>>
-----------------------------------------------------------------------------
(* The poller's goroutine writes the map, one key at a time; the workers store
   their frames, also for a while after they have been deleted. *)

BeginInsert(ip) ==
  /\ phase = "serving" /\ writing = None
  /\ workers[ip] = 0 /\ created[ip] < MaxWorkers
  /\ writing' = ip
  /\ created' = [created EXCEPT ![ip] = @ + 1]
  /\ UNCHANGED <<phase, workers, latest, reader>>

BeginDelete(ip) ==
  /\ phase = "serving" /\ writing = None
  /\ workers[ip] # 0
  /\ writing' = ip
  /\ UNCHANGED <<phase, workers, created, latest, reader>>

(* The readers' records of what has been in the map go with it; a key that is
   gone counts as not met, for the loop may meet it again. *)
EndWrite(ip) ==
  /\ phase = "serving" /\ writing = ip
  /\ writing' = None
  /\ workers' = [workers EXCEPT ![ip] = IF @ = 0 THEN created[ip] ELSE 0]
  /\ reader' = [r \in Readers |->
       [reader[r] EXCEPT
          !.visited = IF workers'[ip] = 0 THEN @ \ {ip} ELSE @,
          !.always  = IF workers'[ip] = 0 THEN @ \ {ip} ELSE @,
          !.ever    = IF workers'[ip] = 0 THEN @ ELSE @ \cup {ip}]]
  /\ UNCHANGED <<phase, created, latest>>

StoreFrame(w) ==
  /\ phase = "serving"
  /\ w[2] <= created[w[1]] /\ latest[w] < MaxFrames
  /\ latest' = [latest EXCEPT ![w] = @ + 1]
  /\ UNCHANGED <<phase, workers, created, writing, reader>>
-----------------------------------------------------------------------------
(* The readers. *)

(* Mutant of Begin: the images of the response before are kept. *)
BeginKeepsImages(r, kind, label, ip) ==
  reader' = [reader EXCEPT ![r] =
    [kind |-> kind, pc |-> label, ip |-> ip, visited |-> {}, entry |-> None,
     images |-> reader[r].images,
     always |-> Tracked, ever |-> Tracked, before |-> latest]]

(* A response is begun: its map of cameras is empty. *)
Begin(r, kind, label, ip) ==
  reader' = [reader EXCEPT ![r] =
    [kind |-> kind, pc |-> label, ip |-> ip, visited |-> {}, entry |-> None,
     images |-> {}, always |-> Tracked, ever |-> Tracked, before |-> latest]]

Snap(r, ip) ==
  /\ At(r, "idle") /\ phase = "serving" /\ "snap" \in Kinds
  /\ Begin(r, "snap", IF ip = All THEN "range" ELSE "lookup", ip)
  /\ UNCHANGED <<phase, pollerVars>>

Subscribe(r, ip) ==
  /\ At(r, "idle") /\ phase = "serving" /\ "subscribe" \in Kinds
  /\ Begin(r, "subscribe", "range", ip)
  /\ UNCHANGED <<phase, pollerVars>>

(* The bot's loop takes one message at a time. *)
BotIdle(r) ==
  /\ At(r, "idle") /\ "bot" \in Kinds
  /\ \A q \in Readers : ~Is(q, "bot")

BotSnap(r) ==
  /\ BotIdle(r) /\ phase = "serving"
  /\ Begin(r, "bot", "range", All)
  /\ UNCHANGED <<phase, pollerVars>>

(* The bot listens before there is a poller: CameraPollerInstance is nil, and
   nothing recovers the panic. *)
BotTooEarly(r) ==
  /\ BotIdle(r) /\ phase = "starting"
  /\ Die

(* "fatal error: concurrent map iteration and map write", or "map read". *)
RaceDetected(r) ==
  /\ At(r, "lookup") \/ At(r, "range")
  /\ writing # None
  /\ Die

Move(r, label) ==
  /\ reader' = [reader EXCEPT ![r].pc = label]
  /\ UNCHANGED <<phase, pollerVars>>

LookupFound(r) ==
  LET ip == reader[r].ip IN
  /\ At(r, "lookup") /\ workers[ip] # 0
  /\ reader' = [reader EXCEPT ![r] =
       [@ EXCEPT !.pc = "snapshot", !.visited = {ip}, !.entry = <<ip, workers[ip]>>]]
  /\ UNCHANGED <<phase, pollerVars>>

(* 400: the response is over. *)
LookupMissing(r) ==
  /\ At(r, "lookup") /\ workers[reader[r].ip] = 0
  /\ reader' = [reader EXCEPT ![r] = Idle]
  /\ UNCHANGED <<phase, pollerVars>>

(* The next key of the range loop that the request asks for. *)
NextWorker(r, ip) ==
  /\ At(r, "range")
  /\ ip \in Tracked \ reader[r].visited
  /\ reader[r].ip \in {All, ip}
  /\ reader' = [reader EXCEPT ![r] =
       [@ EXCEPT !.pc = "snapshot", !.visited = reader[r].visited \cup {ip},
                 !.entry = <<ip, workers[ip]>>]]
  /\ UNCHANGED <<phase, pollerVars>>

(* A key that a subscriber has filtered out. *)
SkipWorker(r, ip) ==
  /\ At(r, "range")
  /\ ip \in Tracked \ reader[r].visited
  /\ reader[r].ip \notin {All, ip}
  /\ reader' = [reader EXCEPT ![r].visited = @ \cup {ip}]
  /\ UNCHANGED <<phase, pollerVars>>

(* Mutant of RangeDone: the loop may be left before its last key. *)
RangeDoneEarly(r) ==
  /\ At(r, "range")
  /\ Move(r, "respond")

(* The keys that were there when the loop began and still are have been met. *)
RangeDone(r) ==
  /\ At(r, "range")
  /\ reader[r].always \subseteq reader[r].visited
  /\ Move(r, "respond")

(* The handlers' response has one entry for an address, the bot's message an
   image for each key that the loop has met. *)
GetSnapshot(r) ==
  LET w == reader[r].entry
      kept == {i \in reader[r].images : Is(r, "bot") \/ i.worker[1] # w[1]} IN
  /\ At(r, "snapshot")
  /\ reader' = [reader EXCEPT ![r] =
       [@ EXCEPT !.pc = IF Is(r, "snap") /\ reader[r].ip # All
                          THEN "respond" ELSE "range",
                 !.entry = None,
                 !.images = kept \cup {[worker |-> w, frame |-> latest[w]]}]]
  /\ UNCHANGED <<phase, pollerVars>>

Respond(r) ==
  /\ ~Is(r, "subscribe") /\ At(r, "respond")
  /\ reader' = [reader EXCEPT ![r] = Idle]
  /\ UNCHANGED <<phase, pollerVars>>

(* The part is written and flushed; an error of the write is only logged. *)
SendPart(r) == Is(r, "subscribe") /\ At(r, "respond") /\ Move(r, "wait")

NextTick(r) ==
  /\ At(r, "wait")
  /\ Begin(r, "subscribe", "range", reader[r].ip)
  /\ UNCHANGED <<phase, pollerVars>>

(* The client has gone, or the server's timeouts have cut it off. *)
Unsubscribe(r) ==
  /\ At(r, "wait")
  /\ reader' = [reader EXCEPT ![r] = Idle]
  /\ UNCHANGED <<phase, pollerVars>>
-----------------------------------------------------------------------------
Poller ==
  \/ \E ip \in IPs : BeginInsert(ip) \/ BeginDelete(ip) \/ EndWrite(ip)
  \/ \E w \in Worker : StoreFrame(w)

NewRequest(r) ==
  \/ \E ip \in IPs \cup {All} : Snap(r, ip) \/ Subscribe(r, ip)
  \/ BotSnap(r)

ReaderStep(r) ==
  \/ LookupFound(r) \/ LookupMissing(r)
  \/ \E ip \in IPs : NextWorker(r, ip) \/ SkipWorker(r, ip)
  \/ RangeDone(r) \/ GetSnapshot(r)
  \/ Respond(r) \/ SendPart(r) \/ NextTick(r)

Next ==
  \/ Serve \/ Poller
  \/ \E r \in Readers :
       \/ NewRequest(r) \/ ReaderStep(r) \/ Unsubscribe(r)
       \/ BotTooEarly(r) \/ RaceDetected(r)

Spec == Init /\ [][Next]_vars
-----------------------------------------------------------------------------
AnsweredIPs(r) == {i.worker[1] : i \in reader[r].images}
Wanted(r)      == IF reader[r].ip = All THEN IPs ELSE {reader[r].ip}

(* A response has all the cameras it was asked for that were tracked from its
   beginning to its end, once each, and none that was not tracked at some time
   of it, although the map changes under the loop. (The bot's message may show a
   camera twice that was removed and added again.) *)
ResponseComplete ==
  \A r \in Readers : reader[r].pc = "respond" =>
    /\ reader[r].always \cap Wanted(r) \subseteq AnsweredIPs(r)
    /\ AnsweredIPs(r) \subseteq reader[r].ever \cap Wanted(r)
    /\ ~Is(r, "bot") =>
         \A i, j \in reader[r].images : i.worker[1] = j.worker[1] => i = j

(* No image is older than the one its worker had when the response was begun,
   not even that of a camera which has been removed in between. *)
ResponseFresh ==
  \A r \in Readers : \A i \in reader[r].images :
    i.frame >= reader[r].before[i.worker]

(* "Streaming endpoint for continuously listening", "Takes snapshot of existing
   cameras": no request for images ends the process. *)
ProcessSurvives == phase # "dead"
=============================================================================
