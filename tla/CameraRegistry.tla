--------------------------- MODULE CameraRegistry ---------------------------
(***************************************************************************)
(* The camera table and its writers: the handlers of POST /camera/add and   *)
(* POST /camera/remove (server/route/camera/camera.go), one goroutine per   *)
(* request, each a sequence of database calls without a transaction, and    *)
(* the poller's copy of the table (pkg/camera/poller.go).                   *)
(*                                                                         *)
(* The database is PostgreSQL behind go-pg, modelled by what the handlers   *)
(* rely on: one call is atomic; the primary keys of an insert without Id    *)
(* come from a sequence; Select into a struct succeeds with exactly one row *)
(* (no row: ErrNoRows; several: ErrMultiRows, with one of them scanned into *)
(* the struct); Delete succeeds whatever the number of rows.                *)
(***************************************************************************)
EXTENDS Naturals, FiniteSets

CONSTANTS
  IPs,            \* camera addresses
  None,           \* no address: a handler that serves no request
  Requests,       \* handler goroutines in flight at a time
  MaxFaults,      \* bound on the database calls that fail
  MaxRequests,    \* bound on the requests served
  MaxRestarts     \* bound on the restarts of the server process

ASSUME RegistryConstants ==
  /\ None \notin IPs
  /\ MaxFaults \in Nat /\ MaxRequests \in Nat /\ MaxRestarts \in Nat

VARIABLES
  \* The database.
  cams,          \* camera_entries: rows [id, ip, adj]
  adjs,          \* camera_adjsustments: ids
  nextCam,       \* sequence of camera_entries.id
  nextAdj,       \* sequence of camera_adjsustments.id
  \* The process.
  req,           \* the local state of each handler
  shouldUpdate,  \* ShouldUpdateEntries
  loaded,        \* the poller's cameras
  querying,      \* the poller is in UpdateStatus, with its query answered
  fetched,       \* what the query answered
  \* What has gone wrong so far.
  refused,       \* calls that failed and had no effect
  lost,          \* calls of this process that had their effect and seemed to fail
  restarts,      \* restarts of the process
  overlapped,    \* two handlers have been under way at a time
  \* A counter that only bounds the model.
  served

dbVars      == <<cams, adjs, nextCam, nextAdj>>
pollerVars  == <<shouldUpdate, loaded, querying, fetched>>
faultVars   == <<refused, lost, restarts>>
requestVars == <<overlapped, served>>
vars        == <<dbVars, req, pollerVars, faultVars, requestVars>>

(* Sequences start at 1. *)
Key    == Nat \ {0}
Camera == [id : Key, ip : IPs, adj : Key]

(* The database call a handler is about to make, or the flag it is about to
   set; "idle" before a request and after its response. *)
HandlerPC == {"idle", "lookup", "adjust", "insert",
              "find", "delete", "unadjust", "signal"}

(* id, adj: the fields of req.Camera, 0 while they have Go's zero value. *)
HandlerState == [pc : HandlerPC, ip : IPs \cup {None}, id : Nat, adj : Nat]
Handler(label, ip) == [pc |-> label, ip |-> ip, id |-> 0, adj |-> 0]
Idle == Handler("idle", None)

TypeOK ==
  /\ cams \in SUBSET Camera /\ adjs \in SUBSET Key
  /\ nextCam \in Key /\ nextAdj \in Key
  /\ req \in [Requests -> HandlerState]
  /\ shouldUpdate \in BOOLEAN /\ querying \in BOOLEAN
  /\ loaded \in SUBSET Camera /\ fetched \in SUBSET Camera
  /\ refused \in Nat /\ lost \in Nat /\ restarts \in Nat
  /\ overlapped \in BOOLEAN /\ served \in Nat

Init ==
  /\ cams = {} /\ adjs = {} /\ nextCam = 1 /\ nextAdj = 1
  /\ req = [r \in Requests |-> Idle]
  /\ shouldUpdate = FALSE /\ loaded = {}
  /\ querying = FALSE /\ fetched = {}
  /\ refused = 0 /\ lost = 0 /\ restarts = 0
  /\ overlapped = FALSE /\ served = 0
-----------------------------------------------------------------------------
Rows(ip) == {c \in cams : c.ip = ip}

(* How a call may go: well; it fails and has no effect; it has its effect and the
   connection is lost before the answer. *)
Succeed == UNCHANGED faultVars

Refuse ==
  /\ refused + lost < MaxFaults /\ refused' = refused + 1
  /\ UNCHANGED <<lost, restarts>>

LoseAnswer ==
  /\ refused + lost < MaxFaults /\ lost' = lost + 1
  /\ UNCHANGED <<refused, restarts>>

At(r, label)   == req[r].pc = label
Goto(r, label) == req' = [req EXCEPT ![r].pc = label]

(* http.Error or the last step: the handler is over. *)
Finish(r) == req' = [req EXCEPT ![r] = Idle]

(* A request that passed validation starts its handler. *)
Receive(r, label, ip) ==
  /\ At(r, "idle") /\ served < MaxRequests
  /\ served' = served + 1
  /\ overlapped' = (overlapped \/ \E q \in Requests : ~At(q, "idle"))
  /\ req' = [req EXCEPT ![r] = Handler(label, ip)]
  /\ UNCHANGED <<dbVars, pollerVars, faultVars>>
-----------------------------------------------------------------------------
(* postAddCameraHandler. *)

(* The address is taken: 409. *)
LookupFound(r) ==
  /\ At(r, "lookup")
  /\ Cardinality(Rows(req[r].ip)) = 1
  /\ Finish(r)
  /\ UNCHANGED <<dbVars, pollerVars, faultVars, requestVars>>

(* Mutant of LookupMissing: the address is not looked up. *)
LookupSkipped(r) ==
  /\ At(r, "lookup")
  /\ Goto(r, "adjust")
  /\ UNCHANGED <<dbVars, pollerVars, faultVars, requestVars>>

(* Any error of the lookup counts as "does not exist". *)
LookupMissing(r) ==
  /\ At(r, "lookup")
  /\ (Rows(req[r].ip) = {} /\ Succeed) \/ Refuse
  /\ Goto(r, "adjust")
  /\ UNCHANGED <<dbVars, pollerVars, requestVars>>

(* ErrMultiRows: req.Camera now is one of the rows, its Id included. *)
LookupAmbiguous(r) ==
  /\ At(r, "lookup")
  /\ Cardinality(Rows(req[r].ip)) > 1
  /\ \E c \in Rows(req[r].ip) :
       req' = [req EXCEPT ![r] = [@ EXCEPT !.pc = "adjust", !.id = c.id]]
  /\ UNCHANGED <<dbVars, pollerVars, faultVars, requestVars>>

(* Mutant of InsertAdjustment: the new id is not read back. *)
InsertAdjustmentUnread(r) ==
  /\ At(r, "adjust")
  /\ adjs' = adjs \cup {nextAdj}
  /\ nextAdj' = nextAdj + 1
  /\ Goto(r, "insert")
  /\ UNCHANGED <<cams, nextCam, pollerVars, faultVars, requestVars>>

InsertAdjustment(r) ==
  /\ At(r, "adjust")
  /\ adjs' = adjs \cup {nextAdj}
  /\ nextAdj' = nextAdj + 1
  /\ \/ /\ req' = [req EXCEPT ![r] = [@ EXCEPT !.pc = "insert", !.adj = nextAdj]]
        /\ Succeed
     \/ Finish(r) /\ LoseAnswer
  /\ UNCHANGED <<cams, nextCam, pollerVars, requestVars>>

(* The row the insert would add; its key is the sequence's unless the lookup
   left one in req.Camera. *)
NewRow(r) ==
  [id |-> IF req[r].id = 0 THEN nextCam ELSE req[r].id,
   ip |-> req[r].ip, adj |-> req[r].adj]

InsertCamera(r) ==
  /\ At(r, "insert")
  /\ \A c \in cams : c.id # NewRow(r).id
  /\ cams' = cams \cup {NewRow(r)}
  /\ nextCam' = IF req[r].id = 0 THEN nextCam + 1 ELSE nextCam
  /\ (Goto(r, "signal") /\ Succeed) \/ (Finish(r) /\ LoseAnswer)
  /\ UNCHANGED <<adjs, nextAdj, pollerVars, requestVars>>

(* The primary key exists: 500, and the adjustment stays. *)
InsertConflict(r) ==
  /\ At(r, "insert")
  /\ \E c \in cams : c.id = NewRow(r).id
  /\ Finish(r)
  /\ UNCHANGED <<dbVars, pollerVars, faultVars, requestVars>>
-----------------------------------------------------------------------------
(* postRemoveCameraHandler. *)

(* Exactly one row: it is scanned into req.Camera, with its adjustment. *)
FindCamera(r) ==
  /\ At(r, "find")
  /\ Cardinality(Rows(req[r].ip)) = 1
  /\ \E c \in Rows(req[r].ip) :
       req' = [req EXCEPT ![r] =
                 [@ EXCEPT !.pc = "delete", !.id = c.id, !.adj = c.adj]]
  /\ UNCHANGED <<dbVars, pollerVars, faultVars, requestVars>>

(* No row, several rows, or a failure: 404. *)
FindNothing(r) ==
  /\ At(r, "find")
  /\ (Cardinality(Rows(req[r].ip)) # 1 /\ Succeed) \/ Refuse
  /\ Finish(r)
  /\ UNCHANGED <<dbVars, pollerVars, requestVars>>

(* Mutant of DeleteCamera: the handler goes on after an error. *)
DeleteCameraUnchecked(r) ==
  /\ At(r, "delete")
  /\ cams' \in {cams, cams \ Rows(req[r].ip)}
  /\ Goto(r, "unadjust")
  /\ UNCHANGED <<adjs, nextCam, nextAdj, pollerVars, faultVars, requestVars>>

(* Every row of the address goes, not only the one that was found. *)
DeleteCamera(r) ==
  /\ At(r, "delete")
  /\ cams' = cams \ Rows(req[r].ip)
  /\ (Goto(r, "unadjust") /\ Succeed) \/ (Finish(r) /\ LoseAnswer)
  /\ UNCHANGED <<adjs, nextCam, nextAdj, pollerVars, requestVars>>

(* Mutant of DeleteAdjustment: the adjustment is left. *)
DeleteAdjustmentSkipped(r) ==
  /\ At(r, "unadjust")
  /\ Goto(r, "signal")
  /\ UNCHANGED <<dbVars, pollerVars, faultVars, requestVars>>

(* An error is logged and the handler goes on. *)
DeleteAdjustment(r) ==
  /\ At(r, "unadjust")
  /\ \/ adjs' = adjs \ {req[r].adj} /\ (Succeed \/ LoseAnswer)
     \/ adjs' = adjs /\ Refuse
  /\ Goto(r, "signal")
  /\ UNCHANGED <<cams, nextCam, nextAdj, pollerVars, requestVars>>
-----------------------------------------------------------------------------
(* Both handlers: a write that is refused ends the request. *)
WriteRefused(r) ==
  /\ req[r].pc \in {"adjust", "insert", "delete"}
  /\ Refuse
  /\ Finish(r)
  /\ UNCHANGED <<dbVars, pollerVars, requestVars>>

(* The response is written, then the flag is set. *)
Signal(r) ==
  /\ At(r, "signal")
  /\ shouldUpdate' = TRUE
  /\ Finish(r)
  /\ UNCHANGED <<dbVars, loaded, querying, fetched, faultVars, requestVars>>
-----------------------------------------------------------------------------
(* The poller's tick, as far as it reads the table; a failed query leaves
   everything as it was. *)

QueryCameras ==
  /\ shouldUpdate /\ ~querying
  /\ querying' = TRUE /\ fetched' = cams
  /\ UNCHANGED <<dbVars, req, shouldUpdate, loaded, faultVars, requestVars>>

(* Mutant of StoreCameras: the flag is cleared once the list is there. *)
StoreCamerasClears ==
  /\ querying
  /\ querying' = FALSE /\ fetched' = {}
  /\ loaded' = fetched
  /\ shouldUpdate' = FALSE
  /\ UNCHANGED <<dbVars, req, faultVars, requestVars>>

StoreCameras ==
  /\ querying
  /\ querying' = FALSE /\ fetched' = {}
  /\ loaded' = fetched
  /\ UNCHANGED <<dbVars, req, shouldUpdate, faultVars, requestVars>>

(* The process ends at any point and is started again: NewCameraPoller reads
   the table before the first request is served. *)
Restart ==
  /\ restarts < MaxRestarts
  /\ restarts' = restarts + 1 /\ lost' = 0
  /\ req' = [r \in Requests |-> Idle]
  /\ shouldUpdate' = FALSE
  /\ loaded' = cams
  /\ querying' = FALSE /\ fetched' = {}
  /\ UNCHANGED <<dbVars, refused, requestVars>>
-----------------------------------------------------------------------------
AddHandler(r) ==
  \/ LookupFound(r) \/ LookupMissing(r) \/ LookupAmbiguous(r)
  \/ InsertAdjustment(r)
  \/ InsertCamera(r) \/ InsertConflict(r)

RemoveHandler(r) ==
  \/ FindCamera(r) \/ FindNothing(r)
  \/ DeleteCamera(r)
  \/ DeleteAdjustment(r)

Next ==
  \/ \E r \in Requests, ip \in IPs : Receive(r, "lookup", ip) \/ Receive(r, "find", ip)
  \/ \E r \in Requests :
       AddHandler(r) \/ RemoveHandler(r) \/ WriteRefused(r) \/ Signal(r)
  \/ QueryCameras \/ StoreCameras
  \/ Restart

Spec == Init /\ [][Next]_vars
-----------------------------------------------------------------------------
(* Whatever handlers overlap, calls fail and the process does, a camera never
   outlives its adjustment, and no two cameras have the same one: the remove
   handler's Relation("Adjustment") always finds what it joins. *)
OwnAdjustment ==
  /\ \A c \in cams : c.adj \in adjs
  /\ \A c, d \in cams : c.adj = d.adj => c = d

(* A remove that has passed its delete has removed the row it found, and
   nothing brings that row back, not even an insert with a recycled key. *)
RemoveEffective ==
  \A r \in Requests :
    req[r].pc = "unadjust" => \A c \in cams : c.adj # req[r].adj

(* A change that has been committed by a handler that is over, or about to be,
   is in the poller's list or will be fetched: no interleaving of the handlers'
   commits and flags with the poller's query loses one, unless the answer to the
   commit was lost. *)
ChangeSignalled ==
  (lost = 0 /\ \A r \in Requests : req[r].pc \notin {"unadjust", "signal"}) =>
    loaded = cams \/ shouldUpdate

(* "Adds a new unique Camera entry": no address is in the table twice. *)
UniqueIp == \A c, d \in cams : c.ip = d.ip => c = d

(* Handlers that do not overlap keep addresses unique, whatever answers are lost
   and whenever the process ends, as long as no lookup fails. *)
UniqueUnlessRaced == ~overlapped /\ refused = 0 => UniqueIp

(* Handlers that do not overlap and whose calls succeed leave no adjustments but
   the cameras', in any order of adds and removes. *)
NoOrphans ==
  (/\ ~overlapped /\ refused = 0 /\ lost = 0 /\ restarts = 0
   /\ \A r \in Requests : req[r].pc = "idle") => adjs = {c.adj : c \in cams}
=============================================================================
